----------------------------- MODULE MC_CurlEmail -----------------------------
(* Instances of CurlEmail for TLC: attachments of up to five bytes, of     *)
(* those that put zeros, ones and a mixture into every place of a group.   *)
EXTENDS CurlEmail

Bytes == {0, 77, 255}
ShortFiles == UNION {[1 .. n -> Bytes] : n \in 0 .. 5}
=============================================================================
