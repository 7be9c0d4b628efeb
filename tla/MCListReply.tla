---------------------------- MODULE MCListReply ----------------------------
(* ListReply on small channel tables. *)
EXTENDS ListReply

\* Two channels in the bucket that counts as none, one in a later bucket.
Small == << <<"a", "b">>, <<>>, <<"c">> >>
=============================================================================
