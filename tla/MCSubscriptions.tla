---------------------------- MODULE MCSubscriptions ----------------------------
(***************************************************************************)
(* Requests by id (one id, two ids in two filters), and an open request    *)
(* whose two filters lapse one after the other.                            *)
(***************************************************************************)
EXTENDS SubscriptionProps

CONSTANTS one, two, alice

Never == MaxTime + 1
ById(ids) == [ids |-> ids, until |-> Never]
Until(t) == [ids |-> {}, until |-> t]

MCAsks == { << ById({one}), ById({two}) >>, << Until(1), Until(2) >> }
MCChunks == { << one, two >> }
================================================================================
