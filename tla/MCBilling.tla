------------------------------- MODULE MCBilling -------------------------------
(***************************************************************************)
(* Small instances of Billing for TLC, and of the file a paid download     *)
(* makes. A behaviour is of one of the parts, chosen when it starts.       *)
(***************************************************************************)
EXTENDS Billing, TilePackage

CONSTANTS ann, bob, eve, t1, o1, h1, h2, j1, j2, Parts

VARIABLE part

NoPackage ==
  /\ stage = None /\ asked = 0 /\ active = <<>> /\ rows = {} /\ absent = {} /\ file = None
  /\ tile = [t \in Tiles |-> [at |-> "new", retries |-> 0]]

MCInit ==
  /\ Init /\ part \in Parts
  /\ \/ part = "billing" /\ NoPackage
     \/ part = "package" /\ PackageInit
MCNext ==
  /\ part' = part
  /\ \/ part = "billing" /\ Next /\ UNCHANGED packageVars
     \/ part = "package" /\ PackageNext /\ UNCHANGED vars
MCSpec == MCInit /\ [][MCNext]_<<vars, packageVars, part>> /\ Fairness
================================================================================
