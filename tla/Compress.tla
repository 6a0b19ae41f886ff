------------------------------ MODULE Compress ------------------------------
(***************************************************************************)
(* compress and uncompress (archival/lzw): an LZW codec whose codes grow   *)
(* wider and are packed into blocks, and the frontend (archival/comp) that *)
(* puts the result beside a file and then removes the file.                *)
(*                                                                         *)
(* A byte has W bits instead of eight; so a block is W codes, the codes    *)
(* begin one bit wider than a byte, and 2^W is the CLEAR code.  A byte of  *)
(* data is a number, a byte of a .Z file the sequence of its bits, the     *)
(* lowest one first.                                                       *)
(***************************************************************************)
EXTENDS Integers, FiniteSets, SequencesExt

CONSTANTS
  W,            \* bits of a byte: 8
  MaxBits,      \* width of the widest code: 16
  Alphabet,     \* the bytes of the files ...
  MaxLength,    \* bound: ... and their length
  MaxCommands   \* bound: how many commands are run

(* The powers of two.                                                      *)
Pow2[n \in 0 .. MaxBits] == IF n = 0 THEN 1 ELSE 2 * Pow2[n - 1]

(* Codes grow only where a block of W codes ends.                          *)
ASSUME CodeAssumption ==
  /\ W \in Nat \ {0} /\ MaxBits \in Nat /\ MaxBits > W /\ Pow2[W] % W = 0
  /\ Alphabet \subseteq 0 .. Pow2[W] - 1 /\ MaxLength \in Nat /\ MaxCommands \in Nat

VARIABLES
  cpc,      \* "new", "idle", "created" or "written"
  data,     \* the file that there was to begin with
  plain, packed,  \* what FILE and FILE.Z hold, {} when there is none
  ccmd,     \* the command that runs
  commands  \* how many have been run

cvars == <<cpc, data, plain, packed, ccmd, commands>>

InitBits   == W + 1
Clear      == Pow2[W]
FirstCode  == Pow2[W] + 1
MaxCode(n) == Pow2[n] - 1

Bits(code, n) == [i \in 1 .. n |-> (code \div Pow2[i - 1]) % 2]
Number(bits)  == CHOOSE code \in 0 .. MaxCode(Len(bits)) : Bits(code, Len(bits)) = bits

-----------------------------------------------------------------------------
(* The encoder. *)

NoEntries == [k \in {} |-> 0]
ResetDict(e) == [e EXCEPT !.dict = NoEntries, !.nBits = InitBits, !.free = FirstCode]

(* Bits as bytes, the last one filled with zeros, and bytes as bits.       *)
Bytes(bits) ==
  [k \in 1 .. (Len(bits) + W - 1) \div W |->
     [i \in 1 .. W |-> LET n == (k - 1) * W + i IN IF n <= Len(bits) THEN bits[n] ELSE 0]]
BitsOf(bytes) == [n \in 1 .. W * Len(bytes) |-> bytes[(n - 1) \div W + 1][((n - 1) % W) + 1]]
FlushBlock(e) == [e EXCEPT !.out = @ \o Bytes(e.buf), !.buf = <<>>]

(* The code goes into the block, which is written when it holds W codes;   *)
(* after CLEAR, and before the codes grow, whatever it holds.              *)
Output(e, code) ==
  LET added == [e EXCEPT !.buf = @ \o Bits(code, e.nBits)]
      f == IF Len(added.buf) = W * e.nBits THEN FlushBlock(added) ELSE added
  IN  CASE code = Clear -> FlushBlock(f)
        [] code # Clear /\ f.free > MaxCode(f.nBits) /\ f.nBits < MaxBits ->
             [FlushBlock(f) EXCEPT !.nBits = @ + 1]
        [] OTHER -> f

(* One byte more: the entry and it are an entry already, or become one, or *)
(* the table is full and is cleared.                                       *)
EncodeByte(e, c) ==
  LET key == <<e.ent, c>>
      f   == Output(e, e.ent)
      g   == IF f.free < Pow2[MaxBits]
             THEN [f EXCEPT !.dict = [k \in DOMAIN @ \cup {key} |-> IF k = key THEN f.free ELSE @[k]],
                            !.free = @ + 1]
             ELSE [ResetDict(Output(f, Clear)) EXCEPT !.full = TRUE]
  IN  IF key \in DOMAIN e.dict THEN [e EXCEPT !.ent = e.dict[key]] ELSE [g EXCEPT !.ent = c]

Encode(s) ==
  LET e0 == [dict |-> NoEntries, nBits |-> InitBits, free |-> FirstCode,
             buf |-> <<>>, out |-> <<>>, ent |-> Head(s), full |-> FALSE]
      e[k \in 1 .. Len(s)] == IF k = 1 THEN e0 ELSE EncodeByte(e[k - 1], s[k])
      last == e[Len(s)]
  IN  FlushBlock(Output(last, last.ent))

Magic == << <<"magic1">>, <<"magic2">>, <<"maxBits">> >>
Packed(s) == Magic \o IF s = <<>> THEN <<>> ELSE Encode(s).out
(* Whether the table of the encoder fills up and is cleared.               *)
Clears(s) == s # <<>> /\ Encode(s).full

-----------------------------------------------------------------------------
(* The decoder. *)

NoCode == -1

(* A block is read when the last one is used up and when the codes outgrow *)
(* their width.                                                            *)
ReadCode(d) ==
  LET outgrown == d.free > MaxCode(d.nBits)
      n     == IF outgrown /\ d.nBits < MaxBits THEN d.nBits + 1 ELSE d.nBits
      fresh == d.buf = <<>> \/ outgrown
      bits  == IF fresh THEN BitsOf(SubSeq(d.in, 1, IF n <= Len(d.in) THEN n ELSE Len(d.in))) ELSE d.buf
  IN  [d EXCEPT !.nBits = n,
                !.in = IF fresh THEN SubSeq(@, n + 1, Len(@)) ELSE @,
                !.buf = SubSeq(bits, n + 1, Len(bits)),
                !.code = IF Len(bits) >= n THEN Number(SubSeq(bits, 1, n)) ELSE NoCode]

(* The first code, and the one after a CLEAR, is written as one byte.      *)
FirstByte(d) ==
  LET f == ReadCode(d) IN
  IF f.code = NoCode THEN [f EXCEPT !.state = "end"]
  ELSE IF f.code >= Clear THEN [f EXCEPT !.state = "garbage"]
  ELSE [f EXCEPT !.out = Append(@, f.code), !.prev = <<f.code>>]

(* A code stands for the bytes of an entry, or, when it is the next one to *)
(* be made, for the last ones and the first of them again.  What an encoder*)
(* does not write, a code beyond that, is "garbage" here: the entries that *)
(* an earlier table left behind would be used.                             *)
DecodeCode(d) ==
  LET f == ReadCode(d)
      s == CASE f.code < Clear -> <<f.code>>
             [] f.code >= Clear /\ f.code < f.free -> f.table[f.code]
             [] OTHER -> Append(f.prev, Head(f.prev))
  IN  CASE f.code = NoCode -> [f EXCEPT !.state = "end"]
        [] f.code = Clear  ->
             FirstByte([f EXCEPT !.nBits = InitBits, !.free = FirstCode, !.buf = <<>>])
        [] f.code > f.free -> [f EXCEPT !.state = "garbage"]
        [] f.code \in 0 .. f.free \ {Clear} ->
             IF f.free < Pow2[MaxBits]
             THEN [f EXCEPT !.out = @ \o s, !.prev = s, !.free = @ + 1,
                            !.table = [k \in DOMAIN @ \cup {f.free} |->
                                         IF k = f.free THEN Append(f.prev, Head(s)) ELSE @[k]]]
             ELSE [f EXCEPT !.out = @ \o s, !.prev = s]

DecodeNext(d) == IF d.state = "more" THEN DecodeCode(d) ELSE d

Decode(bytes) ==
  LET d0 == [in |-> bytes, buf |-> <<>>, nBits |-> InitBits, free |-> FirstCode,
             code |-> NoCode, prev |-> <<>>, table |-> NoEntries, out |-> <<>>, state |-> "more"]
      d[k \in 0 .. Len(bytes) + 1] ==
        IF k = 0 THEN FirstByte(d0) ELSE DecodeNext(d[k - 1])
  IN  d[Len(bytes) + 1]

(* {} for what is not a .Z file.                                           *)
Unpacked(z) == IF Len(z) < 3 THEN {} ELSE {Decode(SubSeq(z, 4, Len(z))).out}

-----------------------------------------------------------------------------
(* The frontend. *)

Inputs == UNION {[1 .. n -> Alphabet] : n \in 0 .. MaxLength}
Cmds   == [name : {"compress", "uncompress"}, keep : BOOLEAN, force : BOOLEAN]

Transform(cmd) ==
  IF cmd.name = "compress" THEN {Packed(s) : s \in plain} ELSE UNION {Unpacked(z) : z \in packed}
SourceOf(cmd) == IF cmd.name = "compress" THEN plain ELSE packed
TargetOf(cmd) == IF cmd.name = "compress" THEN packed ELSE plain
(* The target of the command becomes s, and its source stays.              *)
WriteTo(cmd, s) ==
  IF cmd.name = "compress" THEN packed' = {s} /\ UNCHANGED plain
                           ELSE plain' = {s} /\ UNCHANGED packed
RemoveSource(cmd) ==
  IF cmd.name = "compress" THEN plain' = {} /\ UNCHANGED packed
                           ELSE packed' = {} /\ UNCHANGED plain

CompressInit ==
  /\ cpc = "new" /\ data = <<>> /\ plain = {} /\ packed = {}
  /\ ccmd = [name |-> "compress", keep |-> FALSE, force |-> FALSE] /\ commands = 0

WriteFile ==
  /\ cpc = "new" /\ cpc' = "idle"
  /\ data' \in Inputs /\ plain' = {data'}
  /\ UNCHANGED <<packed, ccmd, commands>>

(* Whoever uses -f to overwrite a file knows that the other one is whole.  *)
Informed(cmd) ==
  cmd.force /\ TargetOf(cmd) # {} =>
    SourceOf(cmd) = {IF cmd.name = "compress" THEN data ELSE Packed(data)}

(* processFile, until the target is created: there must be a source, and   *)
(* without -f no target.                                                   *)
Create ==
  /\ cpc = "idle" /\ commands < MaxCommands /\ commands' = commands + 1
  /\ \E cmd \in Cmds :
       /\ Informed(cmd)
       /\ IF SourceOf(cmd) = {} \/ (TargetOf(cmd) # {} /\ ~cmd.force)
          THEN UNCHANGED <<cpc, plain, packed, ccmd>>
          ELSE cpc' = "created" /\ ccmd' = cmd /\ WriteTo(cmd, <<>>)
  /\ UNCHANGED data

WriteResult ==
  /\ cpc = "created" /\ cpc' = "written"
  /\ \E s \in Transform(ccmd) : WriteTo(ccmd, s)
  /\ UNCHANGED <<data, ccmd, commands>>

(* An error of a read, a write or the close, or a kill: what was written   *)
(* stays.  What is not a .Z file is such an error.                         *)
CutShort == \E s \in Transform(ccmd) : \E n \in 0 .. Len(s) : WriteTo(ccmd, SubSeq(s, 1, n))
WriteErrorIgnored ==      \* mutant: an error is not looked at
  /\ cpc = "created" /\ cpc' = "written"
  /\ CutShort
  /\ UNCHANGED <<data, ccmd, commands>>
WriteFails ==
  /\ cpc = "created" /\ cpc' = "idle"
  /\ CutShort \/ (Transform(ccmd) = {} /\ UNCHANGED <<plain, packed>>)
  /\ UNCHANGED <<data, ccmd, commands>>

(* The source is removed last.                                             *)
RemoveFile ==
  /\ cpc = "written" /\ cpc' = "idle"
  /\ \/ ~ccmd.keep /\ RemoveSource(ccmd)
     \/ UNCHANGED <<plain, packed>>        \* -k, an error, or a kill
  /\ UNCHANGED <<data, ccmd, commands>>

CompressNext == WriteFile \/ Create \/ WriteResult \/ WriteFails \/ RemoveFile
CompressSpec == CompressInit /\ [][CompressNext]_cvars

-----------------------------------------------------------------------------
(* Properties. *)

(* Whatever fails and whoever is killed, what the file held is there, or   *)
(* uncompress gets it back from the .Z file: the test of the codec sends   *)
(* inputs there and back.                                                  *)
ComesBack ==
  cpc # "new" => plain = {data} \/ \E z \in packed : Unpacked(z) = {data}

(* So it is for every file that does not fill the table of codes.          *)
NothingLost == Clears(data) \/ ComesBack

(* What the codec promises the frontend.                                   *)
CodecInverts == \A s \in Inputs : Clears(s) \/ Unpacked(Packed(s)) = {s}
=============================================================================
