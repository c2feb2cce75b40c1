----------------------------- MODULE CacheHistory -----------------------------
(* What software may rely on when it uses the instruction cache as a record:  *)
(* which entries still show memory, and that a dump brings a cache back.      *)
EXTENDS InstructionCache

VARIABLES stale,  \* entries whose block memory changed since it was captured,
                  \* or that a restore brought
          saved   \* the last dump, while its spill area is as the dump left it

historyVars == <<blocks, tags, enabled, wram, sram, stale, saved>>

Nothing == [spill |-> BUS_LEN, cache |-> <<>>]

-----------------------------------------------------------------------------
\* Where a valid entry says its block came from.
EntryBase(tag, index) == (TagField(tag[index]) * ENTRIES + index) * BLOCK_LEN

BlockIn(w, s, base) == [offset \in 0..(BLOCK_LEN - 1) |-> Read(w, s, base + offset)]

\* Entries whose block a change of memory reached, mirrors included.
Touched == {index \in Index : BlockIn(wram, sram, EntryBase(tags, index))
                               # BlockIn(wram', sram', EntryBase(tags, index))}

Area(w, s, spill) == [k \in Spilled |-> Read(w, s, spill + k)]

\* A spill area that every byte has a place of its own in: not the rom, not a
\* device, and not a memory it wraps around in.
Place(address) == IF RegionOf(address) = "Wram" THEN <<"Wram", address % WRAM_LEN>>
                                                ELSE <<"CartRam", address % SRAM_LEN>>
Roomy(spill) ==
  /\ \A k \in Spilled : \/ RegionOf(spill + k) = "Wram"
                        \/ RegionOf(spill + k) = "CartRam" /\ SRAM_LEN # 0
  /\ \A j, k \in Spilled : Place(spill + j) = Place(spill + k) => j = k

\* A dump that went elsewhere, or a store, may have changed the saved area.
Kept == IF saved # Nothing /\ Area(wram, sram, saved.spill) # Area(wram', sram', saved.spill)
        THEN Nothing ELSE saved

HistoryInit == CacheInit /\ stale = {} /\ saved = Nothing

\* A filled entry is captured anew.
HistoryFetch(pc, long) ==
  /\ Fetch(pc, long)
  /\ stale' = {index \in stale : tags'[index] = tags[index] /\ blocks'[index] = blocks[index]}
  /\ UNCHANGED saved

HistoryControl(control) ==
  /\ CacheControl(control)
  /\ stale' = IF Restores(control) THEN Index ELSE stale \cup Touched
  /\ saved' = IF Dumps(control) /\ Roomy(Spill(control))
              THEN [spill |-> Spill(control), cache |-> cache]
              ELSE Kept

HistoryStore(address, value) ==
  /\ Store(address, value)
  /\ stale' = stale \cup Touched
  /\ saved' = Kept

HistoryNext ==
  \/ \E pc \in Fetches, long \in BOOLEAN : HistoryFetch(pc, long)
  \/ \E control \in ControlWords : HistoryControl(control)
  \/ \E address \in StoreAddresses, value \in StoreValues : HistoryStore(address, value)

HistorySpec == HistoryInit /\ [][HistoryNext]_historyVars

-----------------------------------------------------------------------------
\* A valid entry that no restore brought and whose block memory did not change
\* shows that block, and the block is memory: clears, evictions, mirrors and
\* dumps over cached blocks never leave a valid entry with the wrong content.
ValidEntriesShowMemory ==
  \A index \in Index \ stale :
    Valid(tags[index]) =>
      /\ IsMemory(EntryBase(tags, index))
      /\ blocks[index] = BlockIn(wram, sram, EntryBase(tags, index))

\* Whatever was cleared, filled, executed and stored in between, a restore
\* from the area of the last dump brings the dumped cache back whole, as long
\* as nothing wrote to that area.
RestoreBringsBack ==
  [][\A control \in ControlWords :
       /\ Restores(control) /\ Spill(control) = saved.spill
       /\ CacheControl(control)
       => cache' = saved.cache]_historyVars

\* A clear takes the valid bit of the entries that cen and cec name, and
\* nothing else.
OnlyClears(control) ==
  /\ UNCHANGED <<blocks, memory>>
  /\ \A index \in Index :
       /\ TagField(tags'[index]) = TagField(tags[index])
       /\ Valid(tags'[index]) <=>
            Valid(tags[index]) /\ index \notin Cen(control)..(Cen(control) + Cec(control) - 1)

\* A dump leaves the cache alone.  An area with room for it then reads as the
\* blocks in order, followed by the tags.
OnlyDumps(control) ==
  /\ UNCHANGED cache
  /\ Roomy(Spill(control)) =>
       \A index \in Index :
         /\ BlockIn(wram', sram', Spill(control) + index * BLOCK_LEN) = blocks[index]
         /\ ReadWord(wram', sram', Spill(control) + TagPlace(index)) = tags[index]

\* "Clear wins, then dump, then restore": the three are requests of one word
\* and share its address bits, and the first of them that is asked for is the
\* only one done.  A word whose cen names no entry dumps and restores nothing,
\* though its address bits, cut to the bus, would lie in a memory.
OneOperationWins ==
  [][\A control \in ControlWords :
       CacheControl(control) =>
         /\ control.icc => OnlyClears(control)
         /\ ~control.icc /\ control.icd /\ Cen(control) < ENTRIES => OnlyDumps(control)
         /\ ~control.icc /\ Cen(control) >= ENTRIES => UNCHANGED <<cache, memory>>
         /\ ~control.icd => UNCHANGED memory
         /\ ~control.icc /\ ~control.icd /\ ~control.icr => UNCHANGED cache]_historyVars
=============================================================================
