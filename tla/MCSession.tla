------------------------------ MODULE MCSession ----------------------------
(***************************************************************************)
(* One engine and another process that share the file of one feed; four    *)
(* registrations of two drivers, each of them twice.                       *)
(***************************************************************************)
EXTENDS Session

MCUrls == {"a"}
MCFileName == [u \in MCUrls |-> u]
MCPieces == << 2, 1 >>
MCQueue == << "a" >>
MCTypes == [u \in MCUrls |-> << "zip", "tar" >>]
MCDriverNames == {"zip", "tar"}
MCRegistrations == << "tar", "zip", "zip", "tar" >>
=============================================================================
