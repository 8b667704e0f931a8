---------------------------- MODULE MCTransport -----------------------------
(* Instances of Transport: windows of, and beyond, the ring of three. *)
EXTENDS Transport

Both == {"serial", "usb"}
AtAndBeyond == {3, 5}
Beyond == {4}
=============================================================================
