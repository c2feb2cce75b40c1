------------------------------ MODULE MC_Cache -------------------------------
(* Two entries of four bytes.  Wram has room for one spill area, which wraps  *)
(* around in it; cartridge ram has a quarter of one.                          *)
EXTENDS CacheHistory

RomContents == [place \in 0..31 |-> place % 3]
ChcwWord(requests, field) ==
  [icc |-> "clear" \in requests, ice |-> "off" \notin requests,
   icd |-> "dump" \in requests, icr |-> "restore" \in requests, field |-> field]

\* Field 21 is wram byte 8 (and a clear of the second entry), 1 a device (and a
\* clear of the first), 24 the cartridge ram, 28 the rom, and 53 would be wram
\* byte 8 if the bus did not end before it.
FewWords == {ChcwWord({}, 0),
             ChcwWord({"clear", "dump"}, 21), ChcwWord({"clear", "restore"}, 1),
             ChcwWord({"dump"}, 21), ChcwWord({"dump", "restore"}, 24),
             ChcwWord({"restore"}, 21), ChcwWord({"restore"}, 28),
             ChcwWord({"dump"}, 53)}
=============================================================================
