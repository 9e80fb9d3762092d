------------------------------- MODULE WalConfig -------------------------------
(***************************************************************************)
(* The configuration of the write ahead log (TunableConfig in src/wal.rs,  *)
(* WalInstance in src/wal/async.rs): it is made legal, saved with the log  *)
(* when the log is new, and afterwards loaded, changed by what the caller  *)
(* asks for, and saved again over what is there.                           *)
(*                                                                         *)
(* A text is what it begins with, the fields, as many digits as the other  *)
(* fields take, and its end.                                               *)
(***************************************************************************)
EXTENDS Integers, Sequences

CONSTANTS
  MinBlock, MaxBlock, MaxBulk,  \* 4096, 256K and 1M
  DefaultBlock, DefaultBulk,    \* 64K and 256K
  Args                          \* configurations callers ask for

NoConfig == [block |-> 0, bulk |-> 0, digits |-> 0]
Configs == [block : Nat, bulk : Nat, digits : Nat]

Powers == {2 ^ i : i \in 0 .. 20}  \* no limit is above the last

ASSUME ConfigAssumption ==
  /\ {MinBlock, MaxBlock, MaxBulk, DefaultBlock, DefaultBulk} \subseteq Powers
  /\ MinBlock <= DefaultBlock /\ DefaultBlock <= MaxBlock /\ MaxBlock <= MaxBulk
  /\ DefaultBlock <= DefaultBulk
  /\ Args \subseteq Configs \ {NoConfig}

NoText == <<"no file">>

VARIABLES
  text,         \* the file
  saving,       \* what is about to be saved
  config        \* the configuration of the instance in use

configuration == <<text, saving, config>>

ConfigInit == text = NoText /\ saving = NoConfig /\ config = NoConfig

\* checked_next_power_of_two, or the most if there is none.
NextPower(n, most) ==
  IF \A p \in Powers : p < n THEN most
  ELSE CHOOSE p \in Powers : p >= n /\ \A q \in Powers : q >= n => p <= q
Clamp(n, least, most) == IF n < least THEN least ELSE IF n > most THEN most ELSE n

\* Variant: the buffer size is not rounded up to a power of two.
Sanitized_NotRounded(c) ==
  LET block == Clamp(NextPower(c.block, MaxBlock), MinBlock, MaxBlock)
  IN  [c EXCEPT !.block = block, !.bulk = Clamp(c.bulk, block, MaxBulk)]

\* sanitize: of a buffer size that is no multiple of the block size, the number
\* of blocks is taken for the size.
Sanitized(c) ==
  LET block == Clamp(NextPower(c.block, MaxBlock), MinBlock, MaxBlock)
      size == IF c.bulk % block = 0 THEN c.bulk ELSE (c.bulk + block - 1) \div block
  IN  [c EXCEPT !.block = block, !.bulk = Clamp(NextPower(size, MaxBulk), block, MaxBulk)]

Default == [block |-> DefaultBlock, bulk |-> DefaultBulk, digits |-> 0]

Text(c) == <<"{", <<"block", c.block>>, <<"bulk", c.bulk>>>> \o [i \in 1 .. c.digits |-> "9"] \o <<"}">>

\* What the file holds when n pieces of a text were written over it.
Overwritten(new, n) ==
  LET old == IF text = NoText THEN <<>> ELSE text
  IN  SubSeq(new, 1, n) \o SubSeq(old, n + 1, Len(old))

\* A text followed by anything, or cut short, does not parse.
Parses == text # NoText /\ Len(text) >= 4
          /\ text = Text([block |-> text[2][2], bulk |-> text[3][2], digits |-> Len(text) - 4])
Persisted == [block |-> text[2][2], bulk |-> text[3][2], digits |-> Len(text) - 4]

\* Variant: the block size asked for is taken, whatever was persisted.
Asked_NewBlock(c) == Sanitized(c)

\* The block size stays the one the log began with.
Asked(c) == Sanitized([c EXCEPT !.block = Persisted.block])

\* init_config, to the point where it has something to save, or not.
LoadConfig(arg) ==
  LET wanted == IF text = NoText
                THEN IF arg = NoConfig THEN Default ELSE Sanitized(arg)
                ELSE IF arg = NoConfig THEN Persisted ELSE Asked(arg)
  IN  /\ config = NoConfig /\ saving = NoConfig
      /\ text = NoText \/ Parses
      /\ IF text # NoText /\ wanted = Persisted
         THEN config' = wanted /\ UNCHANGED saving
         ELSE saving' = wanted /\ UNCHANGED config
      /\ UNCHANGED text

\* save_config opens the file without truncating it.
SaveConfig ==
  /\ saving # NoConfig
  /\ text' = Overwritten(Text(saving), Len(Text(saving)))
  /\ config' = saving /\ saving' = NoConfig

\* A crash: of what was being saved, any part may have been written.
LoseConfig ==
  /\ IF saving = NoConfig THEN UNCHANGED text
     ELSE \/ UNCHANGED text
          \/ \E n \in 0 .. Len(Text(saving)) : text' = Overwritten(Text(saving), n)
  /\ saving' = NoConfig /\ config' = NoConfig

\* The instance is dropped, or consumed by a call that fails.
DropConfig == config' = NoConfig /\ UNCHANGED <<text, saving>>
===============================================================================
