------------------------------ MODULE FrameFormat ------------------------------
(***************************************************************************)
(* The bytes of a log file: how write_to_file.rs encodes a frame, walks    *)
(* the frames of a file that may have been cut short, and cuts the tail,   *)
(* and what a reader makes of the result.  LogFile abstracts a frame to a  *)
(* block and the walk to a lookup; this module is why it may.              *)
(*                                                                         *)
(* The format is that of the code with its numbers as parameters: a byte   *)
(* is a number below 2 * Base, of which the size field uses Base values    *)
(* for seven bits and the other half for "more follows".                   *)
(***************************************************************************)
EXTENDS Integers, Sequences, FiniteSetsExt, SequencesExt

CONSTANTS
  ByteXor(_, _), \* exclusive or, bit by bit
  Base,          \* 2^7: one group of the variable-length size
  MaxGroups,     \* 5: groups the walker accepts (shift <= 28)
  SizeMask,      \* 0xC5
  SumMask,       \* 0x5C
  KeyMod,        \* 2^12: the keystream's state (& 0xFFF)
  Word,          \* 2^32: the width of the product in xor_seed
  Magic,         \* "OPLog 1.0\n"
  CheckMaxLen,   \* TAIL_CHECK_MAX_LEN
  Payloads,      \* compressed payloads an attempt may carry
  Rnds,          \* values of the random byte
  Strangers,     \* contents a file may have before this library opens it
  Synthetic,     \* payloads of files that are well laid out, and no more
  MaxBlocks,     \* bound: blocks in the file when an attempt starts, plus one
  MaxTimeouts    \* bound: attempts that time out and leave work behind

Byte == 0 .. 2 * Base - 1
Marker == 2 * Base - 1            \* 0xff
None == -1

ASSUME FormatAssumption ==
  /\ Base \in Nat /\ Base > 1 /\ MaxGroups \in Nat
  /\ SizeMask \in Byte /\ SumMask \in Byte
  /\ KeyMod \in Nat \ {0} /\ Word \in Nat \ {0} /\ Word % KeyMod = 0
  /\ Magic \in Seq(Byte) /\ Magic # <<>>
  /\ CheckMaxLen \in Nat /\ MaxBlocks \in Nat /\ MaxTimeouts \in Nat

ASSUME XorAssumption ==
  \A a, b \in Byte : ByteXor(a, b) \in Byte /\ ByteXor(ByteXor(a, b), b) = a

ASSUME ContentAssumption ==
  /\ \A p \in Payloads \cup Synthetic : p \in Seq(Byte) /\ p # <<>>
  /\ \A p \in Strangers : p \in Seq(Byte) /\ p # <<>>
  /\ Rnds \subseteq Byte

--------------------------------------------------------------------------------
(* The writer. *)

xor_seed_saturating(rnd, size) == Min({rnd * size, Word - 1}) % KeyMod

\* The product wraps at the width of a word before the mask is taken.
xor_seed(rnd, size) == ((rnd * size) % Word) % KeyMod

ObfuscateByStates(text, seed) ==
  LET key[i \in 0 .. Len(text)] ==
        IF i = 0 THEN seed ELSE (key[i - 1] * 2903 + 71) % KeyMod
  IN  [i \in 1 .. Len(text) |-> ByteXor(text[i], key[i])]

\* The bytes XORed with the keystream that starts at seed.
Obfuscate(text, seed) ==
  LET key[i \in 0 .. Len(text)] ==
        IF i = 0 THEN seed ELSE (key[i - 1] * 2903 + 71) % KeyMod
  IN  [i \in 1 .. Len(text) |-> ByteXor(text[i], key[i] % (2 * Base))]

\* Taken over the payload before it is obfuscated.
Checksum(text) == SumFunction(text) % (2 * Base)

\* The size, seven bits at a time, the low ones first.
SizeBytes(size) ==
  LET groups[n \in 0 .. size] ==
        IF n < Base THEN <<ByteXor(n, SizeMask)>>
        ELSE <<ByteXor((n % Base) + Base, SizeMask)>> \o groups[n \div Base]
  IN  groups[size]

\* No payload is longer than the walker's size field can say.
ASSUME SizeAssumption ==
  \A p \in Payloads \cup Synthetic : Len(SizeBytes(Len(p))) <= MaxGroups

Prefix(text, rnd) ==
  <<Marker, rnd, ByteXor(Checksum(text), SumMask)>> \o SizeBytes(Len(text))

encode_frame(text, rnd) ==
  Prefix(text, rnd) \o Obfuscate(text, xor_seed(rnd, Len(text)))

\* A file laid out in frames whose payloads nobody compressed: the benchmark
\* of the tail check makes such files, and damage inside a payload leaves them.
synth_file(payload) == Magic \o <<Marker, 1, 2>> \o SizeBytes(Len(payload)) \o payload

--------------------------------------------------------------------------------
(* The readers.  Offsets count from 0, as in the code. *)

HasMagic(b) == IsPrefix(Magic, b)

\* Positions among from .. to at which a size field may end, and the size
\* the groups from .. end spell.
SizeEnds(b, from, to) == {i \in from .. to : ByteXor(b[i], SizeMask) < Base}

SizeOfUnmasked(b, from, end) ==
  LET size[i \in from .. end] ==
        ByteXor(b[i], SizeMask) + (IF i = end THEN 0 ELSE Base * size[i + 1])
  IN  size[from]

SizeOf(b, from, end) ==
  LET size[i \in from .. end] ==
        (ByteXor(b[i], SizeMask) % Base) + (IF i = end THEN 0 ELSE Base * size[i + 1])
  IN  size[from]

\* The offset of the frame the file ends in, or None when it ends on a frame
\* boundary or is not laid out as the walker expects.
truncated_frame_start(b) ==
  LET longest == 3 + MaxGroups
      walk[pos \in 0 .. Len(b)] ==
        IF pos = Len(b) \/ b[pos + 1] # Marker THEN None
        ELSE LET available == Min({longest, Len(b) - pos})
                 ends == SizeEnds(b, pos + 4, pos + available)
             IN  IF ends = {} THEN IF available < longest THEN pos ELSE None
                 ELSE LET next == Min(ends) + SizeOf(b, pos + 4, Min(ends))
                      IN  IF next > Len(b) THEN pos ELSE walk[next]
  IN  IF HasMagic(b) THEN walk[Len(Magic)] ELSE None

\* The frame at pos: where its payload starts, where the next frame does, and
\* what a reader takes the seed from and makes of the payload.
PayloadAt(b, pos) == Min(SizeEnds(b, pos + 4, Len(b)))
NextFrame(b, pos) == PayloadAt(b, pos) + SizeOf(b, pos + 4, PayloadAt(b, pos))
SeedProduct(b, pos) == b[pos + 2] * (NextFrame(b, pos) - PayloadAt(b, pos))
TextAt(b, pos) ==
  Obfuscate(SubSeq(b, PayloadAt(b, pos) + 1, NextFrame(b, pos)), SeedProduct(b, pos) % KeyMod)

\* It is marked and complete, and passes its checksum.
Readable(b, pos) ==
  /\ pos < Len(b) /\ b[pos + 1] = Marker
  /\ SizeEnds(b, pos + 4, Len(b)) # {} /\ NextFrame(b, pos) <= Len(b)
  /\ Checksum(TextAt(b, pos)) = ByteXor(b[pos + 3], SumMask)

\* What the documented reader recovers: it stops at the first frame it cannot
\* read, and takes the seed from the full product.
Recovered(b) ==
  LET read[pos \in 0 .. Len(b)] ==
        IF Readable(b, pos) THEN <<TextAt(b, pos)>> \o read[NextFrame(b, pos)] ELSE <<>>
  IN  IF HasMagic(b) THEN read[Len(Magic)] ELSE <<>>

\* The results of the tests' decoder, at most one: it panics where the other
\* stops in front of the end, and when the product does not fit in a word.
decode_oplog_file(b) ==
  LET stop[pos \in 0 .. Len(b)] ==
        IF Readable(b, pos) /\ SeedProduct(b, pos) < Word THEN stop[NextFrame(b, pos)]
        ELSE pos
  IN  IF HasMagic(b) /\ stop[Len(Magic)] = Len(b) THEN {Recovered(b)} ELSE {}

\* The benchmarks count the frames of a whole file by their sizes alone; one
\* that is not laid out in frames ends the count (in a panic, there).
count_frames(b) ==
  LET count[pos \in 0 .. Len(b)] ==
        LET ends == SizeEnds(b, pos + 4, Len(b))
            next == Min(ends) + SizeOf(b, pos + 4, Min(ends))
        IN  IF pos = Len(b) \/ b[pos + 1] # Marker \/ ends = {} THEN 0
            ELSE 1 + (IF next > Len(b) THEN 0 ELSE count[next])
  IN  count[Len(Magic)]

--------------------------------------------------------------------------------
VARIABLES
  bytes,      \* the file
  blocks,     \* history: what was written there, one record per block
  flight,     \* operations the blocking pool still carries out after a timeout
  verified,   \* tail_verified
  check,      \* the tail checks: of this attempt, and one timed out earlier
  timeouts,   \* attempts that timed out so far
  overtaken   \* history: work left behind has changed the file, since the
              \* last walk, in a way the second look at its length cannot see

vars == <<bytes, blocks, flight, verified, check, timeouts, overtaken>>

\* idle: none runs; found: a cut was found in a file of len bytes; cutting:
\* the length has been seen unchanged; ready: the check has let the attempt on.
Idle == [pc |-> "idle", len |-> 0, cut |-> None]
Checks == {"current", "abandoned"}

Block(kind, at, len, text) == [kind |-> kind, at |-> at, len |-> len, text |-> text]

\* An operation on the blocking pool: a File::create, the write of the
\* magic, another write at its handle's own place, or one that appends.
Operation(op, at, data) == [op |-> op, at |-> at, data |-> data]
Operations == [op : {"create", "magic", "write", "append"}, at : Nat, data : Seq(Byte)]

\* It goes over what is in the file by then.
InPlace(w) == w.op \in {"create", "write"}

\* Every variable holds a value of its type, and the blocks of the history lie
\* one behind the other up to the end of the file.
TypeOK ==
  /\ bytes \in Seq(Byte) /\ flight \in Seq(Operations)
  /\ verified \in BOOLEAN /\ timeouts \in 0 .. MaxTimeouts /\ overtaken \in BOOLEAN
  /\ \A c \in Checks : check[c].pc \in {"idle", "found", "cutting", "ready"}
  /\ \A i \in DOMAIN blocks :
       /\ blocks[i].kind \in {"whole", "framed", "torn", "stale", "foreign"}
       /\ blocks[i].at + blocks[i].len =
            IF i = Len(blocks) THEN Len(bytes) ELSE blocks[i + 1].at

\* A file that does not exist yet, or whatever the path held before.
Init ==
  /\ \/ bytes = <<>> /\ blocks = <<>>
     \/ /\ bytes \in Strangers
        /\ blocks = <<Block("foreign", 0, Len(bytes), <<>>)>>
     \/ \E p \in Synthetic :
          /\ bytes = synth_file(p)
          /\ blocks = <<Block("framed", Len(Magic), Len(bytes) - Len(Magic), <<>>)>>
  /\ flight = <<>> /\ verified = FALSE /\ timeouts = 0 /\ overtaken = FALSE
  /\ check = [c \in Checks |-> Idle]

--------------------------------------------------------------------------------
(* The tail check, step by step: the steps of one check interleave with    *)
(* late writes and with the steps of a check that was given up.            *)

\* Opens the file, notes its length and walks it; a long file is let through.
Walk ==
  /\ bytes # <<>> /\ ~verified /\ check["current"].pc = "idle"
  /\ LET cut == truncated_frame_start(bytes)
     IN  check' = [check EXCEPT !["current"] =
           IF Len(bytes) > CheckMaxLen \/ cut = None
           THEN [pc |-> "ready", len |-> Len(bytes), cut |-> None]
           ELSE [pc |-> "found", len |-> Len(bytes), cut |-> cut]]
  /\ overtaken' = FALSE
  /\ UNCHANGED <<bytes, blocks, flight, verified, timeouts>>

\* The history of the check that runs, if one does: unseen says that this step is
\* one it cannot see.
Overtakes(unseen) ==
  overtaken' = (check'["current"].pc \in {"found", "cutting"} /\ (overtaken \/ unseen))

\* A check that ends lets its own attempt on; nobody waits for another's.
Ended(c) == IF c = "current" THEN [check[c] EXCEPT !.pc = "ready"] ELSE Idle

CheckOnce(c) ==
  /\ check[c].pc = "found"
  /\ check' = [check EXCEPT ![c].pc = "cutting"]
  /\ Overtakes(FALSE)
  /\ UNCHANGED <<bytes, blocks, flight, verified, timeouts>>

\* The file changed under the walk: it is left alone.
Recheck(c) ==
  /\ check[c].pc = "found"
  /\ check' = [check EXCEPT ![c] = IF Len(bytes) # check[c].len THEN Ended(c)
                                   ELSE [@ EXCEPT !.pc = "cutting"]]
  /\ Overtakes(FALSE)
  /\ UNCHANGED <<bytes, blocks, flight, verified, timeouts>>

\* What is left of the blocks of a file cut to n bytes.
CutBlocks(n) ==
  [i \in {j \in DOMAIN blocks : blocks[j].at < n} |->
     IF blocks[i].at + blocks[i].len <= n THEN blocks[i]
     ELSE Block("stale", blocks[i].at, n - blocks[i].at, <<>>)]

\* set_len also lengthens a file that has become shorter meanwhile: with zeros.
SetLen(c) ==
  LET cut == check[c].cut
  IN  /\ check[c].pc = "cutting"
      /\ bytes' = [i \in 1 .. cut |-> IF i <= Len(bytes) THEN bytes[i] ELSE 0]
      /\ blocks' = IF cut <= Len(bytes) THEN CutBlocks(cut)
                   ELSE Append(blocks, Block("stale", Len(bytes), cut - Len(bytes), <<>>))
      /\ check' = [check EXCEPT ![c] = Ended(c)]
      /\ Overtakes(c = "abandoned")
      /\ UNCHANGED <<flight, verified, timeouts>>

--------------------------------------------------------------------------------
(* An attempt to append one frame. *)

AppendAnyway == Len(blocks) < MaxBlocks

\* A missing or empty file is created anew; one with content is appended to
\* once its tail is known, even if it has been emptied meanwhile.
Creating == bytes = <<>> /\ check["current"].pc = "idle"

MayAppend ==
  /\ Len(blocks) < MaxBlocks
  /\ Creating \/ verified \/ check["current"].pc = "ready"

Start == IF Creating THEN Magic ELSE <<>>

\* What an attempt adds: in front of everything else, where the magic ought to
\* be, it is none of the format's blocks.
Added(kind, at, len, text) == Block(IF at = 0 THEN "foreign" ELSE kind, at, len, text)

\* The attempt is over; a failed one also forgets what it knew of the tail.
Over(ok) ==
  /\ verified' = ok
  /\ check' = [check EXCEPT !["current"] = Idle]
  /\ Overtakes(FALSE)

AppendFrame ==
  /\ MayAppend
  /\ \E text \in Payloads, rnd \in Rnds :
       LET frame == encode_frame(text, rnd)
       IN  /\ bytes' = bytes \o Start \o frame
           /\ blocks' = Append(blocks, Added("whole", Len(bytes \o Start), Len(frame), text))
  /\ Over(TRUE)
  /\ UNCHANGED <<flight, timeouts>>

\* No space left, or a crash: only part of the magic and the frame lands.
TearFrame ==
  /\ MayAppend
  /\ \E text \in Payloads, rnd \in Rnds :
       LET all == Start \o encode_frame(text, rnd)
       IN  \E k \in 1 .. Len(all) - 1 :
             /\ bytes' = bytes \o SubSeq(all, 1, k)
             /\ blocks' = IF k < Len(Start)
                          THEN <<Block("foreign", 0, k, <<>>)>>
                          ELSE IF k = Len(Start) THEN blocks
                          ELSE Append(blocks, Added("torn", Len(bytes \o Start),
                                                    k - Len(Start), <<>>))
  /\ Over(FALSE)
  /\ UNCHANGED <<flight, timeouts>>

\* The attempt times out: the operation that is stuck stays with the blocking
\* pool, and what follows it is never handed over.
LeavesBehind(operation) ==
  /\ flight' = Append(flight, operation)
  /\ timeouts < MaxTimeouts /\ timeouts' = timeouts + 1
  /\ Over(FALSE)

TimeOut ==
  /\ MayAppend /\ ~Creating
  /\ \E text \in Payloads, rnd \in Rnds :
       LET prefix == Prefix(text, rnd)
       IN  \/ /\ LeavesBehind(Operation("append", 0, prefix))
              /\ UNCHANGED <<bytes, blocks>>
           \/ /\ LeavesBehind(Operation("append", 0, Obfuscate(text, xor_seed(rnd, Len(text)))))
              /\ bytes' = bytes \o prefix
              /\ blocks' = Append(blocks, Added("torn", Len(bytes), Len(prefix), <<>>))

\* One that creates the file writes through a handle that does not append.
TimeOutCreating ==
  /\ MayAppend /\ Creating
  /\ \/ /\ \/ LeavesBehind(Operation("create", 0, <<>>))
           \/ LeavesBehind(Operation("magic", 0, Magic))
        /\ UNCHANGED <<bytes, blocks>>
     \/ \E text \in Payloads, rnd \in Rnds :
          LET prefix == Prefix(text, rnd)
          IN  \/ /\ LeavesBehind(Operation("write", Len(Magic), prefix))
                 /\ bytes' = Magic /\ UNCHANGED blocks
              \/ /\ LeavesBehind(Operation("write", Len(Magic \o prefix),
                                           Obfuscate(text, xor_seed(rnd, Len(text)))))
                 /\ bytes' = Magic \o prefix
                 /\ blocks' = <<Block("torn", Len(Magic), Len(prefix), <<>>)>>

\* len stale bytes behind the blocks bs, which reach to at: they make a frame
\* torn there, or stale bytes, something else.
WithStale(bs, at, len) ==
  IF bs # <<>> /\ Last(bs).kind \in {"torn", "stale"}
  THEN [bs EXCEPT ![Len(bs)] = Block("stale", @.at, @.len + len, <<>>)]
  ELSE Append(bs, Block("stale", at, len, <<>>))

\* File::create empties whatever is there by now.
LateCreate ==
  /\ bytes' = <<>> /\ blocks' = <<>>

\* The file gets its magic, over whatever it starts with.
LateMagic ==
  IF HasMagic(bytes) THEN UNCHANGED <<bytes, blocks>>
  ELSE LET rest == SubSeq(bytes, Len(Magic) + 1, Len(bytes))
       IN  /\ bytes' = Magic \o rest
           /\ blocks' = IF rest = <<>> THEN <<>>
                        ELSE <<Block("stale", Len(Magic), Len(rest), <<>>)>>

\* The buffer lands at the end of the file, wherever that is by then.
LateAppend(data) ==
  /\ bytes' = bytes \o data
  /\ blocks' = WithStale(blocks, Len(bytes), Len(data))

\* It lands where the attempt that made the file had come to, behind zeros or
\* over what has been written there since.
LateOverwrite(at, data) ==
  LET from == Min({at, Len(bytes)})
      len  == Max({Len(bytes), at + Len(data)})
      kept == IF at <= Len(bytes) THEN CutBlocks(at) ELSE blocks
  IN  /\ bytes' = [i \in 1 .. len |->
                     IF i \in at + 1 .. at + Len(data) THEN data[i - at]
                     ELSE IF i <= Len(bytes) THEN bytes[i] ELSE 0]
      /\ blocks' = WithStale(kept, from, len - from)

\* An operation left behind is carried out after all.
LateWrite ==
  /\ UNCHANGED <<verified, check, timeouts>>
  /\ \E i \in DOMAIN flight :
       LET w == flight[i]
       IN  /\ flight' = RemoveAt(flight, i)
           /\ \/ w.op = "create" /\ LateCreate
              \/ w.op = "magic"  /\ LateMagic
              \/ w.op = "write"  /\ LateOverwrite(w.at, w.data)
              \/ w.op = "append" /\ LateAppend(w.data)
           /\ Overtakes(InPlace(w) \/ check["current"].pc = "cutting")

\* The attempt times out in the middle of its tail check, which runs on the
\* blocking pool and goes on there; or it fails after it.
Abandon ==
  /\ check["current"].pc # "idle"
  /\ \/ /\ check["current"].pc \in {"found", "cutting"}
        /\ check["abandoned"].pc = "idle"
        /\ check' = [current |-> Idle, abandoned |-> check["current"]]
        /\ timeouts < MaxTimeouts /\ timeouts' = timeouts + 1
     \/ /\ check["current"].pc = "ready"
        /\ check' = [check EXCEPT !["current"] = Idle]
        /\ UNCHANGED timeouts
  /\ verified' = FALSE
  /\ Overtakes(FALSE)
  /\ UNCHANGED <<bytes, blocks, flight>>

\* The process dies and a new one opens the file.
Restart ==
  /\ check' = [c \in Checks |-> Idle]
  /\ verified' = FALSE /\ flight' = <<>>
  /\ Overtakes(FALSE)
  /\ UNCHANGED <<bytes, blocks, timeouts>>

Next ==
  \/ Walk
  \/ \E c \in Checks : Recheck(c) \/ SetLen(c)
  \/ AppendFrame \/ TearFrame
  \/ TimeOut \/ TimeOutCreating \/ LateWrite
  \/ Abandon \/ Restart

Spec == Init /\ [][Next]_vars

--------------------------------------------------------------------------------
Whole(i)  == \A j \in 1 .. i : blocks[j].kind = "whole"
Framed(i) == \A j \in 1 .. i : blocks[j].kind \in {"whole", "framed"}

\* The walk finds what it is for and nothing else (truncated_frame_start's
\* promise): no cut in a file of whole frames, the start of a frame torn off at
\* the end, and never an offset inside the whole frames a file starts with -
\* whatever their payloads hold, since it goes by the layout alone.
TailFound ==
  LET cut == truncated_frame_start(bytes)
      n   == Len(blocks)
  IN  /\ Framed(n) => cut = None
      /\ n > 0 /\ Framed(n - 1) /\ blocks[n].kind = "torn" => cut = blocks[n].at
      /\ \A i \in 1 .. n : Framed(i) => cut = None \/ cut >= blocks[i].at + blocks[i].len

\* What a successful attempt wrote in front of the first broken block comes
\* back from the file exactly as it was encoded: the seed, the keystream, the
\* checksum and the size field of the writer and of the reader agree, the
\* wrapped product of xor_seed included, and nothing is left over.
WrittenIsRead ==
  LET texts == [i \in DOMAIN blocks |-> blocks[i].text]
  IN  /\ \A i \in DOMAIN blocks :
           Whole(i) => IsPrefix(SubSeq(texts, 1, i), Recovered(bytes))
      /\ Whole(Len(blocks)) =>
           /\ Recovered(bytes) = texts
           /\ blocks # <<>> /\ (\A i \in DOMAIN texts : (2 * Base - 1) * Len(texts[i]) < Word)
                => decode_oplog_file(bytes) = {texts}
      /\ blocks # <<>> /\ Framed(Len(blocks)) => count_frames(bytes) = Len(blocks)

\* In a file that is ours and short enough to be checked, a frame torn behind
\* whole ones stays the last block unless stale work follows it (write_to_file
\* cuts it before it appends).
TornOnlyLast ==
  \A i \in 1 .. Len(blocks) - 1 :
    Framed(i - 1) /\ blocks[i].kind = "torn" =>
      blocks[i + 1].kind = "stale" \/ blocks[i + 1].at > CheckMaxLen

\* A frame that was confirmed is only lost to work an attempt left behind: to a
\* check given up after it had seen the length unchanged (the second metadata
\* call of cut_interrupted_tail_up_to protects a check from late writes, and
\* nothing protects a later attempt from an earlier check), or to the
\* File::create or a write of an attempt that created the file.
GivenUpCheckEnds ==
  check["abandoned"].pc = "cutting" /\ check'["abandoned"].pc = "idle"
LandsInPlace ==
  \E i \in DOMAIN flight : InPlace(flight[i]) /\ flight' = RemoveAt(flight, i)

CutLosesNothing ==
  [][\A i \in DOMAIN blocks :
       Framed(i) /\ ~(i \in DOMAIN blocks' /\ blocks'[i] = blocks[i])
         => GivenUpCheckEnds \/ LandsInPlace]_vars

\* The check of the running attempt cuts only what no reader could use, a frame
\* that a late write has completed since the walk included ("If the file
\* changed under the walk ... leave it alone rather than cut a live frame").
\* The second look is at the length alone, and a moment before the cut; so this
\* is said of a check that no late write has caught between the two, and no
\* given up check and no write in place since its walk.
LiveFrameIsLeft ==
  [][check["current"].pc = "cutting" /\ check'["current"].pc = "ready" /\ ~overtaken
       => Recovered(bytes') = Recovered(bytes)]_vars

======================================================================================
