----------------------------- MODULE MCPublication -----------------------------
(***************************************************************************)
(* Two versions of one address, a private broadcast of their author, a     *)
(* deletion that names the older version and the broadcast, one that names *)
(* that deletion, the deletion by key that may remove the broadcast, and   *)
(* an ephemeral event.                                                     *)
(***************************************************************************)
EXTENDS PublicationProps, TLC

CONSTANTS old, new, del, undo, secret, key, signal, alice

MCRef == [e \in Event |-> IF e = new THEN old ELSE e]
MCAuthor == [e \in Event |-> IF e = key THEN key ELSE alice]
MCTargets ==
  [d \in Deletion |-> (del :> {old, secret} @@ undo :> {del} @@ key :> {secret})[d]]
MCKey == [e \in Private |-> key]
MCNewer == {<< new, old >>}
================================================================================
