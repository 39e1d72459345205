---------------------------- MODULE MCEmailCodes ----------------------------
(* Instances of EmailCodes for TLC. *)
EXTENDS EmailCodes, TLC

\* Requests are interchangeable, and so are the requesters' addresses and the
\* mailboxes.
RequestSymmetry ==
  Permutations(Sends) \cup Permutations(Checks) \cup Permutations(Ips)
  \cup Permutations(Mailboxes)

\* At most four requests, of more sends and checks.
Begun == {s \in Sends : spc[s] # "idle"} \cup {c \in Checks : cpc[c] # "idle"}
MCNext == Next /\ Cardinality(Begun') <= 4
MCSpec == Init /\ [][MCNext]_vars
=============================================================================
