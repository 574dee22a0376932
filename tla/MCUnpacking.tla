---- MODULE MCUnpacking ----
(* An unsigned int of 32 values: content of up to 33 bytes passes it, and so *)
(* do the buffers of files of sixteen bytes and more.                        *)
EXTENDS Unpacking
================================
