---------------------------- MODULE MCOrderStore ----------------------------
(***************************************************************************)
(* Instances of OrderStore for TLC.  o1 and o2 are orders, o3 is an id no  *)
(* order has.                                                              *)
(***************************************************************************)
EXTENDS OrderStoreClaims, TLC

CONSTANTS o1, o2, o3, p1, p2, p3, c1, c2

Symmetric == Permutations(Patches)

MCInitStatus == [o \in Existing |-> "pending"]

Body(s, other) == [status |-> s, other |-> other]

(* Cancel, ship, change the notes only, send nothing.                      *)
MCBodies == {Body("cancelled", FALSE), Body("shipped", FALSE),
             Body("none", TRUE), Body("none", FALSE)}
MCBogus == {Body("cancelled", FALSE), Body("bogus", TRUE), Body("none", TRUE)}
MCShip == {Body("shipped", FALSE)}

(* Two overlapping chunks, with a missing id and a repeated one.           *)
MCChunkIds == c1 :> <<o1, o2>> @@ c2 :> <<o1, o3, o1>>
MCApproveFlag == c1 :> "approve" @@ c2 :> "flag"
MCFlagReject == c1 :> "flag" @@ c2 :> "reject"
MCOneId == c1 :> <<o1>>
MCApprove == c1 :> "approve"
=============================================================================
