---------------------------- MODULE MCSafeFile ----------------------------
(* Two callers racing on one path, one with a private key and one with a   *)
(* certificate, a reader, files of two chunks.                             *)
EXTENDS SafeFile
CONSTANTS w1, w2, r1
MCWriters == {w1, w2}
MCPrivate == {w1}
===========================================================================
