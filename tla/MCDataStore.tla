---------------------------- MODULE MCDataStore ----------------------------
(* A member of two elements without a serializer, and one that is resizeable *)
(* or of one element.                                                        *)
EXTENDS DataStore

Two == (1 :> {<<2, FALSE>>}) @@ (2 :> {<<0, FALSE>>, <<0, TRUE>>, <<1, FALSE>>})
Some == {{1}, FULL}
=============================================================================
