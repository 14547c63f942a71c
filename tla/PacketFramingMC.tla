--------------------------- MODULE PacketFramingMC --------------------------
(***************************************************************************)
(* PacketFraming with the code's sizes scaled down: the classes 8, 128, ... *)
(* 160000 become 6 and 8, the 16384 bytes for a cut header become 5, and    *)
(* the longest body 2 MB becomes 5.  A cut header's buffer can then be too  *)
(* small for its packet, a packet can exceed every class, and one chunk can *)
(* hold the end of a packet, a whole one and the start of a third.          *)
(***************************************************************************)
EXTENDS PacketFraming

\* The last one's length is refused.
MCKinds == {[hdr |-> 1, len |-> 0], [hdr |-> 1, len |-> 2], [hdr |-> 4, len |-> 2],
            [hdr |-> 4, len |-> 5], [hdr |-> 4, len |-> 6]}

\* What misaligned bytes look like: every kind of header turns up.
MCJunk ==
    [o \in -1 .. MaxBytes |->
        CASE o % 4 = 0 -> [hdr |-> 4, len |-> 9]
          [] o % 4 = 1 -> [hdr |-> 1, len |-> 0]
          [] o % 4 = 2 -> [hdr |-> 4, len |-> 1]
          [] OTHER     -> [hdr |-> 1, len |-> 3]]
=============================================================================
