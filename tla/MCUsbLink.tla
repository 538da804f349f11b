----------------------------- MODULE MCUsbLink -----------------------------
(* UsbLink for TLC: the client threads are interchangeable. *)
EXTENDS UsbLink, TLC

Symmetry == Permutations(Client)
=============================================================================
