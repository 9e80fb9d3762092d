---------------------------- MODULE WalAsyncProofs ----------------------------
(***************************************************************************)
(* Proofs about the configuration of the log in async code, for whatever   *)
(* callers ask for, any limits that are powers of two, and any number of   *)
(* writers and readers: the configuration in use fits what is on disk.     *)
(***************************************************************************)
EXTENDS WalAsync, WellFoundedInduction, SequenceTheorems, TLAPS

-----------------------------------------------------------------------------
(* The configuration.                                                      *)

\* The sizes of a legal configuration.
Fits(block, bulk) ==
  /\ block \in Powers /\ MinBlock <= block /\ block <= MaxBlock
  /\ bulk \in Nat /\ bulk >= block /\ bulk % block = 0

\* A text that begins with the two sizes and may be all of a configuration.
Full == Len(text) >= 4
LogBlock == text[2][2]

Pieces == {"{", "}", "9"} \cup ({"block", "bulk"} \X Nat)

TextInv ==
  text # NoText => /\ text \in Seq(Pieces)
                   /\ Len(text) >= 3 => Fits(text[2][2], text[3][2])

SavingInv ==
  saving # NoConfig =>
    /\ saving \in Configs /\ Fits(saving.block, saving.bulk)
    /\ text = NoText \/ (Full /\ saving.block = LogBlock)

ConfigInv ==
  config # NoConfig =>
    /\ config \in Configs /\ Fits(config.block, config.bulk)
    /\ Full /\ config.block = LogBlock

-----------------------------------------------------------------------------
(* What is written, and what is about to be.                               *)

\* The block size of a log that has one.
LogSizes == IF Full THEN {LogBlock} ELSE {}

IsSeq(s) == s \in Seq({s[i] : i \in DOMAIN s})

\* Blocks of one of the sizes.
Sized(blocks, sizes) ==
  /\ IsSeq(blocks)
  /\ \A i \in DOMAIN blocks : "size" \in DOMAIN blocks[i] /\ blocks[i].size \in sizes

FileOk(f, sizes) ==
  DOMAIN f = {"content", "synced"} /\ f.synced \in Nat /\ Sized(f.content, sizes)
FilesOk(files, sizes) == \A n \in DOMAIN files : FileOk(files[n], sizes)

-----------------------------------------------------------------------------
(* The tasks.                                                              *)

Openings == {"names", "data_names", "mani_lsn", "data_lsn", "no_lsn", "open_mani", "open_data"}
Writings == {"flush", "write", "sync", "rot_sync", "rot_new", "flushed"}
Removals == {"list", "remove"}
Manifests == {"mani", "mani_full", "mani_list", "mani_remove", "mani_new", "mani_sync"}
Turns == {"ended", "start", "top", "pop", "lsn"}
Places == Openings \cup Writings \cup Removals \cup Manifests \cup Turns

\* Where a task can go on, by what it does.
Returns(l) ==
  CASE l \in Writings -> {<<"pop">>, <<"lsn">>}
    [] l \in Removals -> {<<"top">>, <<"mani", "top">>, <<"flushed", "pop">>, <<"flushed", "lsn">>}
    [] l \in Manifests -> {<<"top">>, <<"list", "top">>, <<"list", "mani", "top">>,
                           <<"write", "pop">>, <<"write", "lsn">>}
    [] OTHER -> {<<>>}

\* A task that runs writes blocks of the size of the log.
TaskOk(t, sizes) ==
  /\ DOMAIN t = DOMAIN Ended
  /\ t.pc \in Places /\ t.then \in Returns(t.pc)
  /\ Sized(t.buf, sizes)
  /\ t.pc # "ended" => t.block_size \in sizes

TaskInv == DOMAIN task = Writers /\ \A w \in Writers : TaskOk(task[w], LogSizes)

\* A call to open is under way while its task is being opened.
OpeningInv ==
  /\ gen \in Nat
  /\ holder # "nothing" => config # NoConfig
  /\ \A w \in Writers :
       /\ w > gen => task[w] = Ended
       /\ task[w].pc \in Openings => w = gen /\ holder \in {"opening", "opening reader"}

Configured == TextInv /\ SavingInv /\ ConfigInv

IInv == Configured /\ FilesOk(data, LogSizes) /\ TaskInv /\ OpeningInv

-----------------------------------------------------------------------------
(* Powers of two.                                                          *)

LEMMA PowersAre ==
  Powers = {1, 2, 4, 8, 16, 32, 64, 128, 256, 512, 1024,
                    2048, 4096, 8192, 16384, 32768, 65536, 131072, 262144, 524288, 1048576}
<1>1. 0 .. 20 = {0, 1, 2, 3, 4, 5, 6, 7, 8, 9, 10, 11, 12, 13, 14, 15, 16, 17, 18, 19, 20}
  OBVIOUS
<1>2. Powers = {2 ^ i : i \in {0, 1, 2, 3, 4, 5, 6, 7, 8, 9, 10, 11, 12, 13, 14, 15, 16, 17, 18, 19, 20}}
  BY <1>1 DEF Powers
<1> QED BY <1>2

\* The greater of two is a multiple of the smaller.
LEMMA PowersDivide ==
  \A p, q \in Powers : p \in Nat /\ p >= 1 /\ (p >= q => p % q = 0)
  BY PowersAre

LEMMA LeastNumber ==
  ASSUME NEW S, S \subseteq Nat, S # {}
  PROVE  \E x \in S : \A y \in S : x <= y
<1> DEFINE R == OpToRel(<, Nat)
<1>1. IsWellFoundedOn(R, Nat)
  BY NatLessThanWellFounded
<1>2. \A x, y \in Nat : <<x, y>> \in R <=> x < y
  BY DEF OpToRel
<1> HIDE DEF R
<1>3. PICK x \in S : \A y \in S : ~(<<y, x>> \in R)
  BY <1>1, WFMin
<1>4. ASSUME NEW y \in S PROVE x <= y
  <2>1. ~(y < x)
    BY <1>2, <1>3
  <2> QED BY <2>1
<1> QED BY <1>4

LEMMA NextPowerIs ==
  ASSUME NEW n \in Nat, NEW most \in Powers
  PROVE  /\ NextPower(n, most) \in Powers
         /\ n \in Powers => NextPower(n, most) = n
<1> DEFINE S == {p \in Powers : p >= n}
<1>1. CASE S = {}
  <2>1. \A p \in Powers : p \in Nat /\ ~(p >= n)
    BY <1>1, PowersDivide
  <2>2. \A p \in Powers : p < n
    BY <2>1
  <2> QED BY <2>1, <2>2 DEF NextPower
<1>2. CASE S # {}
  <2>1. S \subseteq Nat
    BY PowersDivide
  <2>2. \E p \in Powers : p >= n /\ \A q \in Powers : q >= n => p <= q
    <3>1. PICK p \in S : \A q \in S : p <= q
      <4> HIDE DEF S
      <4> QED BY <1>2, <2>1, LeastNumber
    <3> QED BY <3>1
  <2>3. \E p \in Powers : ~(p < n)
    <3>1. PICK p \in S : TRUE
      BY <1>2
    <3> QED BY <3>1, PowersDivide
  <2>4. NextPower(n, most) = CHOOSE p \in Powers : p >= n /\ \A q \in Powers : q >= n => p <= q
    BY <2>3 DEF NextPower
  <2>5. /\ NextPower(n, most) \in Powers /\ NextPower(n, most) >= n
        /\ \A q \in Powers : q >= n => NextPower(n, most) <= q
    BY <2>2, <2>4
  <2>6. ASSUME n \in Powers PROVE NextPower(n, most) = n
    <3>1. NextPower(n, most) <= n
      BY <2>5, <2>6
    <3> HIDE DEF S
    <3> QED BY <2>5, <3>1, PowersDivide
  <2> QED BY <2>5, <2>6
<1> QED BY <1>1, <1>2

\* Whatever is asked for is made legal, and a legal block size stays.
LEMMA SanitizedFits ==
  ASSUME NEW c \in Configs
  PROVE  /\ Sanitized(c) \in Configs
         /\ Fits(Sanitized(c).block, Sanitized(c).bulk)
         /\ c.block \in Powers /\ MinBlock <= c.block /\ c.block <= MaxBlock
              => Sanitized(c).block = c.block
<1> DEFINE next == NextPower(c.block, MaxBlock)
           block == Clamp(next, MinBlock, MaxBlock)
           size == IF c.bulk % block = 0 THEN c.bulk ELSE (c.bulk + block - 1) \div block
           up == NextPower(size, MaxBulk)
           bulk == Clamp(up, block, MaxBulk)
<1>0. /\ {MinBlock, MaxBlock, MaxBulk} \subseteq Powers /\ {MinBlock, MaxBlock, MaxBulk} \subseteq Nat
      /\ MinBlock <= MaxBlock /\ MaxBlock <= MaxBulk
      /\ c.block \in Nat /\ c.bulk \in Nat /\ c.digits \in Nat
  <2>1. {MinBlock, MaxBlock, MaxBulk, DefaultBlock} \subseteq Nat
    BY ConfigAssumption, PowersDivide
  <2> QED BY <2>1, ConfigAssumption DEF Configs
<1>1. next \in Powers /\ next \in Nat /\ (c.block \in Powers => next = c.block)
  BY <1>0, NextPowerIs, PowersDivide
<1> HIDE DEF next
<1>2. /\ block \in Powers /\ block \in Nat /\ block >= 1 /\ MinBlock <= block /\ block <= MaxBlock
      /\ MinBlock <= next /\ next <= MaxBlock => block = next
  <2>1. /\ block \in {next, MinBlock, MaxBlock} /\ MinBlock <= block /\ block <= MaxBlock
        /\ MinBlock <= next /\ next <= MaxBlock => block = next
    BY <1>0, <1>1 DEF Clamp
  <2> QED BY <2>1, <1>0, <1>1, PowersDivide
<1> HIDE DEF block
<1>3. size \in Nat
  BY <1>0, <1>2
<1> HIDE DEF size
<1>4. up \in Powers /\ up \in Nat
  BY <1>0, <1>3, NextPowerIs, PowersDivide
<1> HIDE DEF up
<1>5. bulk \in Powers /\ bulk \in Nat /\ bulk >= block
  BY <1>0, <1>2, <1>4 DEF Clamp
<1> HIDE DEF bulk
<1>6. bulk % block = 0
  BY <1>2, <1>5, PowersDivide
<1>7. Sanitized(c) = [c EXCEPT !.block = block, !.bulk = bulk]
  BY DEF Sanitized, next, block, size, up, bulk
<1>8. Sanitized(c) \in Configs /\ Sanitized(c).block = block /\ Sanitized(c).bulk = bulk
  BY <1>2, <1>5, <1>7 DEF Configs
<1> QED BY <1>1, <1>2, <1>5, <1>6, <1>8 DEF Fits
-----------------------------------------------------------------------------
(* The file of the configuration.                                          *)

LEMMA ThreeOf ==
  ASSUME NEW S, NEW x \in S, NEW y \in S, NEW z \in S
  PROVE  <<x, y, z>> \in Seq(S) /\ Len(<<x, y, z>>) = 3 /\ <<x, y, z>>[2] = y /\ <<x, y, z>>[3] = z
  OBVIOUS

LEMMA ManyOf ==
  ASSUME NEW S, NEW x \in S, NEW n \in Nat
  PROVE  [i \in 1 .. n |-> x] \in Seq(S) /\ Len([i \in 1 .. n |-> x]) = n
  OBVIOUS

LEMMA TextIs ==
  ASSUME NEW c \in Configs
  PROVE  /\ Text(c) \in Seq(Pieces) /\ Len(Text(c)) = 4 + c.digits
         /\ Text(c)[2] = <<"block", c.block>> /\ Text(c)[3] = <<"bulk", c.bulk>>
<1> DEFINE a == <<"{", <<"block", c.block>>, <<"bulk", c.bulk>>>>
           b == [i \in 1 .. c.digits |-> "9"]
           z == <<"}">>
<1>1. c.block \in Nat /\ c.bulk \in Nat /\ c.digits \in Nat
  BY DEF Configs
<1>2. /\ a \in Seq(Pieces) /\ Len(a) = 3
      /\ a[2] = <<"block", c.block>> /\ a[3] = <<"bulk", c.bulk>>
  <2>1. "{" \in Pieces /\ <<"block", c.block>> \in Pieces /\ <<"bulk", c.bulk>> \in Pieces
    BY <1>1 DEF Pieces
  <2> HIDE DEF Pieces
  <2> QED BY ONLY <2>1, ThreeOf DEF a
<1>3. b \in Seq(Pieces) /\ Len(b) = c.digits
  <2>1. "9" \in Pieces
    BY DEF Pieces
  <2> QED BY <1>1, <2>1, ManyOf
<1>4. z \in Seq(Pieces) /\ Len(z) = 1
  <2>1. "}" \in Pieces
    BY DEF Pieces
  <2> HIDE DEF Pieces
  <2>2. \A S, x : x \in S => <<x>> \in Seq(S) /\ Len(<<x>>) = 1
    OBVIOUS
  <2> QED BY ONLY <2>1, <2>2 DEF z
<1>5. Text(c) = (a \o b) \o z
  BY DEF Text
<1> HIDE DEF a, b, z
<1> DEFINE ab == a \o b
<1>6. /\ ab \in Seq(Pieces) /\ Len(ab) = 3 + c.digits
      /\ ab[2] = a[2] /\ ab[3] = a[3]
  <2>1. /\ a \o b \in Seq(Pieces) /\ Len(a \o b) = Len(a) + Len(b)
        /\ \A i \in 1 .. Len(a) + Len(b) : (a \o b)[i] = IF i <= Len(a) THEN a[i] ELSE b[i - Len(a)]
    BY <1>2, <1>3, ConcatProperties
  <2>2. 2 \in 1 .. Len(a) + Len(b) /\ 3 \in 1 .. Len(a) + Len(b)
    BY <1>1, <1>2, <1>3
  <2> QED BY <1>1, <1>2, <1>3, <2>1, <2>2
<1> HIDE DEF ab
<1>7. ab \o z \in Seq(Pieces) /\ Len(ab \o z) = 4 + c.digits
      /\ (ab \o z)[2] = ab[2] /\ (ab \o z)[3] = ab[3]
  <2>1. /\ ab \o z \in Seq(Pieces) /\ Len(ab \o z) = Len(ab) + Len(z)
        /\ \A i \in 1 .. Len(ab) + Len(z) : (ab \o z)[i] = IF i <= Len(ab) THEN ab[i] ELSE z[i - Len(ab)]
    BY <1>4, <1>6, ConcatProperties
  <2>2. 2 \in 1 .. Len(ab) + Len(z) /\ 3 \in 1 .. Len(ab) + Len(z)
    BY <1>1, <1>4, <1>6
  <2> QED BY <1>1, <1>4, <1>6, <2>1, <2>2
<1> QED BY <1>2, <1>5, <1>6, <1>7 DEF ab

\* A configuration that is read is one that was written.
LEMMA PersistedFits ==
  ASSUME TextInv, text # NoText, Parses
  PROVE  /\ Full /\ Persisted \in Configs
         /\ Persisted.block = LogBlock
         /\ Fits(Persisted.block, Persisted.bulk)
<1>1. text \in Seq(Pieces) /\ Len(text) \in Nat /\ Len(text) >= 4 /\ Full
  BY DEF TextInv, Parses, Full
<1>2. Fits(text[2][2], text[3][2])
  BY <1>1 DEF TextInv
<1>3. text[2][2] \in Nat /\ text[3][2] \in Nat /\ Len(text) - 4 \in Nat
  BY <1>1, <1>2, PowersDivide DEF Fits
<1>4. Persisted = [block |-> text[2][2], bulk |-> text[3][2], digits |-> Len(text) - 4]
  BY DEF Persisted
<1> QED BY <1>1, <1>2, <1>3, <1>4 DEF Configs, LogBlock

\* What is written over the file leaves it a text with legal sizes, and leaves a
\* full one full and its block size what it was.
LEMMA OverwrittenIs ==
  ASSUME TextInv, SavingInv, saving # NoConfig, NEW n \in 0 .. Len(Text(saving)),
         text' = Overwritten(Text(saving), n)
  PROVE  /\ TextInv'
         /\ Full => Full' /\ LogBlock' = LogBlock
         /\ n = Len(Text(saving)) => Full' /\ LogBlock' = saving.block
<1> DEFINE new == Text(saving)
           old == IF text = NoText THEN <<>> ELSE text
           a == SubSeq(new, 1, n)
           z == SubSeq(old, n + 1, Len(old))
<1>1. /\ saving \in Configs /\ Fits(saving.block, saving.bulk) /\ saving.digits \in Nat
      /\ text = NoText \/ (Full /\ saving.block = LogBlock)
  BY DEF SavingInv, Configs
<1>2. /\ new \in Seq(Pieces) /\ Len(new) = 4 + saving.digits
      /\ new[2] = <<"block", saving.block>> /\ new[3] = <<"bulk", saving.bulk>>
  BY <1>1, TextIs
<1>3. Len(NoText) = 1
  BY DEF NoText
<1>4. /\ old \in Seq(Pieces) /\ Len(old) \in Nat
      /\ Full => /\ old = text /\ Len(old) >= 4 /\ saving.block = old[2][2]
                 /\ Fits(old[2][2], old[3][2])
      /\ ~Full => old = <<>> /\ Len(old) = 0
  <2>1. CASE text = NoText
    BY <2>1, <1>3 DEF Full
  <2>2. CASE text # NoText
    BY <2>2, <1>1 DEF TextInv, Full, LogBlock
  <2> QED BY <2>1, <2>2
<1>5. text' = a \o z
  BY DEF Overwritten
<1>6. n \in Nat /\ n <= Len(new)
  BY <1>1, <1>2
<1> HIDE DEF new, old
<1>7. a \in Seq(Pieces) /\ Len(a) = n /\ \A i \in 1 .. n : a[i] = new[i]
  BY <1>2, <1>6
<1>8. /\ z \in Seq(Pieces)
      /\ Len(z) = IF n < Len(old) THEN Len(old) - n ELSE 0
      /\ \A i \in 1 .. Len(z) : z[i] = old[n + i]
  BY <1>4, <1>6
<1> HIDE DEF a, z
<1>9. /\ a \o z \in Seq(Pieces) /\ Len(a \o z) = n + Len(z) /\ Len(z) \in Nat
      /\ \A i \in 1 .. n + Len(z) : (a \o z)[i] = IF i <= n THEN a[i] ELSE z[i - n]
  <2>1. /\ a \o z \in Seq(Pieces) /\ Len(a \o z) = Len(a) + Len(z)
        /\ \A i \in 1 .. Len(a) + Len(z) : (a \o z)[i] = IF i <= Len(a) THEN a[i] ELSE z[i - Len(a)]
    BY <1>7, <1>8, ConcatProperties
  <2> QED BY <1>7, <1>8, <2>1
<1>10. ASSUME NEW i \in {2, 3}, i <= n + Len(z)
       PROVE  (a \o z)[i] = IF i <= n THEN new[i] ELSE old[i]
  <2>1. CASE i <= n
    BY <2>1, <1>6, <1>7, <1>9, <1>10
  <2>2. CASE ~(i <= n)
    <3>1. i - n \in 1 .. Len(z) /\ n + (i - n) = i /\ i \in 1 .. n + Len(z)
      BY <2>2, <1>6, <1>9, <1>10
    <3> QED BY <2>2, <3>1, <1>8, <1>9
  <2> QED BY <2>1, <2>2
<1>11. Full => Len(a \o z) >= 4
  BY <1>4, <1>6, <1>8, <1>9
<1>12. ~Full => Len(a \o z) = n
  BY <1>4, <1>6, <1>8, <1>9
<1>13. ASSUME Len(a \o z) >= 3
       PROVE  Fits((a \o z)[2][2], (a \o z)[3][2]) /\ (a \o z)[2][2] = saving.block
  <2>1. /\ (a \o z)[2] = IF 2 <= n THEN new[2] ELSE old[2]
        /\ (a \o z)[3] = IF 3 <= n THEN new[3] ELSE old[3]
    BY <1>9, <1>10, <1>13
  <2>2. CASE Full
    <3>1. (a \o z)[2][2] = saving.block
      BY <2>1, <2>2, <1>2, <1>4
    <3>2. (a \o z)[3][2] \in {saving.bulk, old[3][2]}
      BY <2>1, <1>2
    <3>3. Fits(saving.block, saving.bulk) /\ Fits(saving.block, old[3][2])
      BY <2>2, <1>1, <1>4
    <3> QED BY <3>1, <3>2, <3>3
  <2>3. CASE ~Full
    <3>1. 3 <= n
      BY <2>3, <1>12, <1>13
    <3>2. 2 <= n
      BY <3>1, <1>6
    <3> QED BY <2>1, <3>1, <3>2, <1>1, <1>2
  <2> QED BY <2>2, <2>3
<1>14. TextInv'
  BY <1>5, <1>9, <1>13 DEF TextInv
<1>15. Full => Full' /\ LogBlock' = LogBlock
  <2> SUFFICES ASSUME Full PROVE Full' /\ LogBlock' = LogBlock
    OBVIOUS
  <2>1. Full' /\ Len(a \o z) >= 3
    BY <1>5, <1>9, <1>11 DEF Full
  <2>2. LogBlock' = saving.block
    BY <2>1, <1>5, <1>13 DEF LogBlock
  <2> QED BY <2>1, <2>2, <1>4 DEF LogBlock
<1>16. n = Len(Text(saving)) => Full' /\ LogBlock' = saving.block
  <2> SUFFICES ASSUME n = Len(Text(saving)) PROVE Full' /\ LogBlock' = saving.block
    OBVIOUS
  <2>1. n >= 4
    BY <1>1, <1>2 DEF new
  <2>2. Len(a \o z) >= 4 /\ Len(a \o z) >= 3
    BY <2>1, <1>6, <1>9
  <2> QED BY <2>2, <1>5, <1>13 DEF Full, LogBlock
<1> QED BY <1>14, <1>15, <1>16

\* The block size of a log that has one stays.
Stays == Full => Full' /\ LogBlock' = LogBlock

LEMMA LoadStep ==
  ASSUME Configured, NEW arg \in Args \cup {NoConfig}, LoadConfig(arg)
  PROVE  Configured' /\ Stays
<1> DEFINE wanted == IF text = NoText
                     THEN IF arg = NoConfig THEN Default ELSE Sanitized(arg)
                     ELSE IF arg = NoConfig THEN Persisted ELSE Asked(arg)
<1>1. /\ UNCHANGED text /\ (text = NoText \/ Parses)
      /\ IF text # NoText /\ wanted = Persisted
         THEN config' = wanted /\ UNCHANGED saving
         ELSE saving' = wanted /\ UNCHANGED config
  BY DEF LoadConfig
<1>2. TextInv' /\ Stays
  BY <1>1 DEF Configured, TextInv, Stays, Full, LogBlock
<1>3. arg # NoConfig => arg \in Configs
  BY ConfigAssumption
<1>4. ASSUME text = NoText PROVE wanted \in Configs /\ Fits(wanted.block, wanted.bulk)
  <2>1. CASE arg = NoConfig
    <3>1. /\ DefaultBlock \in Powers /\ DefaultBulk \in Powers
          /\ DefaultBlock \in Nat /\ DefaultBulk \in Nat /\ MinBlock \in Nat /\ MaxBlock \in Nat
          /\ MinBlock <= DefaultBlock /\ DefaultBlock <= MaxBlock /\ DefaultBlock <= DefaultBulk
          /\ DefaultBulk % DefaultBlock = 0
      <4>1. {DefaultBlock, DefaultBulk, MinBlock, MaxBlock} \subseteq Powers
        BY ConfigAssumption
      <4>2. {DefaultBlock, DefaultBulk, MinBlock, MaxBlock} \subseteq Nat
        BY <4>1, PowersDivide
      <4>3. DefaultBulk >= DefaultBlock
        BY <4>2, ConfigAssumption
      <4> QED BY <4>1, <4>2, <4>3, ConfigAssumption, PowersDivide
    <3>2. wanted = [block |-> DefaultBlock, bulk |-> DefaultBulk, digits |-> 0]
      BY <1>4, <2>1 DEF Default
    <3> HIDE DEF wanted
    <3> QED BY <3>1, <3>2 DEF Configs, Fits
  <2>2. CASE arg # NoConfig
    BY <1>3, <1>4, <2>2, SanitizedFits
  <2> QED BY <2>1, <2>2
<1>5. ASSUME text # NoText
      PROVE  wanted \in Configs /\ Fits(wanted.block, wanted.bulk)
             /\ Full /\ wanted.block = LogBlock
  <2>1. /\ Full /\ Persisted \in Configs /\ Persisted.block = LogBlock
        /\ Fits(Persisted.block, Persisted.bulk)
    BY <1>1, <1>5, PersistedFits DEF Configured
  <2>2. CASE arg = NoConfig
    BY <1>5, <2>1, <2>2
  <2>3. CASE arg # NoConfig
    <3> DEFINE c == [arg EXCEPT !.block = Persisted.block]
    <3>1. c \in Configs /\ c.block = LogBlock
      BY <2>1, <2>3, <1>3 DEF Configs
    <3>2. LogBlock \in Powers /\ MinBlock <= LogBlock /\ LogBlock <= MaxBlock
      BY <2>1 DEF Fits
    <3>3. wanted = Sanitized(c)
      BY <1>5, <2>3 DEF Asked
    <3> HIDE DEF c, wanted
    <3> QED BY <2>1, <3>1, <3>2, <3>3, SanitizedFits
  <2> QED BY <2>2, <2>3
<1> HIDE DEF wanted
<1>6. SavingInv' /\ ConfigInv'
  <2>1. Full' = Full /\ LogBlock' = LogBlock
    BY <1>1 DEF Full, LogBlock
  <2>2. CASE text = NoText
    <3>1. saving' = wanted /\ config' = config /\ text' = NoText
      BY <1>1, <2>2
    <3> QED BY <2>1, <3>1, <2>2, <1>4 DEF Configured, SavingInv, ConfigInv
  <2>3. CASE text # NoText
    <3>1. \/ saving' = wanted /\ config' = config
          \/ config' = wanted /\ saving' = saving
      BY <1>1
    <3>2. text' = text
      BY <1>1
    <3> QED BY <2>1, <2>3, <3>1, <3>2, <1>5 DEF Configured, SavingInv, ConfigInv
  <2> QED BY <2>2, <2>3
<1> QED BY <1>2, <1>6 DEF Configured

LEMMA SaveStep ==
  ASSUME Configured, SaveConfig
  PROVE  Configured' /\ Stays
<1> DEFINE n == Len(Text(saving))
<1>1. /\ saving # NoConfig /\ config' = saving /\ saving' = NoConfig
      /\ text' = Overwritten(Text(saving), n)
  BY DEF SaveConfig
<1>2. saving \in Configs /\ Fits(saving.block, saving.bulk)
  BY <1>1 DEF Configured, SavingInv
<1>3. n \in 0 .. Len(Text(saving))
  BY <1>2, TextIs DEF Configs
<1>4. TextInv' /\ Stays /\ Full' /\ LogBlock' = saving.block
  BY <1>1, <1>3, OverwrittenIs DEF Configured, Stays
<1> QED BY <1>1, <1>2, <1>4 DEF Configured, SavingInv, ConfigInv

LEMMA LoseStep ==
  ASSUME Configured, LoseConfig
  PROVE  Configured' /\ Stays
<1>1. saving' = NoConfig /\ config' = NoConfig
  BY DEF LoseConfig
<1>2. TextInv' /\ Stays
  <2>1. CASE text' = text
    BY <2>1 DEF Configured, TextInv, Stays, Full, LogBlock
  <2>2. CASE saving # NoConfig /\ \E n \in 0 .. Len(Text(saving)) :
               text' = Overwritten(Text(saving), n)
    BY <2>2, OverwrittenIs DEF Configured, Stays
  <2> QED BY <2>1, <2>2 DEF LoseConfig
<1> QED BY <1>1, <1>2 DEF Configured, SavingInv, ConfigInv

\* A step that at most drops the configuration.
LEMMA KeepStep ==
  ASSUME Configured, UNCHANGED <<text, saving>>, config' = config \/ config' = NoConfig
  PROVE  Configured' /\ Stays
<1>1. Full' = Full /\ LogBlock' = LogBlock /\ TextInv'
  BY DEF Configured, TextInv, Full, LogBlock
<1> QED BY <1>1 DEF Configured, SavingInv, ConfigInv, Stays
-----------------------------------------------------------------------------
(* Blocks, and the files they are written to.                              *)

LEMMA SizedEmpty == \A sizes : Sized(<<>>, sizes)
  BY DEF Sized, IsSeq

LEMMA SizedMove ==
  ASSUME NEW s, NEW sizes, NEW more, Sized(s, sizes), sizes \subseteq more
  PROVE  Sized(s, more)
  BY DEF Sized

LEMMA SizedOf ==
  ASSUME NEW s, NEW sizes, NEW T, s \in Seq(T),
         \A i \in 1 .. Len(s) : "size" \in DOMAIN s[i] /\ s[i].size \in sizes
  PROVE  Sized(s, sizes)
<1>1. DOMAIN s = 1 .. Len(s)
  OBVIOUS
<1>2. IsSeq(s)
  <2>1. \A i \in 1 .. Len(s) : s[i] \in {s[j] : j \in DOMAIN s}
    BY <1>1
  <2> DEFINE R == {s[j] : j \in DOMAIN s}
  <2>2. \A i \in 1 .. Len(s) : s[i] \in R
    BY <2>1
  <2> HIDE DEF R
  <2>3. s \in Seq(R)
    BY <2>2
  <2> QED BY <2>3 DEF IsSeq, R
<1> QED BY <1>1, <1>2 DEF Sized

LEMMA SizedIs ==
  ASSUME NEW s, NEW sizes, Sized(s, sizes)
  PROVE  /\ \E T : s \in Seq(T)
         /\ Len(s) \in Nat /\ DOMAIN s = 1 .. Len(s)
         /\ \A i \in 1 .. Len(s) : "size" \in DOMAIN s[i] /\ s[i].size \in sizes
<1>1. PICK T : s \in Seq(T)
  BY DEF Sized, IsSeq
<1>2. Len(s) \in Nat /\ DOMAIN s = 1 .. Len(s)
  BY <1>1
<1> QED BY <1>1, <1>2 DEF Sized

LEMMA SizedConcat ==
  ASSUME NEW a, NEW b, NEW sizes, Sized(a, sizes), Sized(b, sizes)
  PROVE  Sized(a \o b, sizes)
<1>1. PICK A : a \in Seq(A)
  BY SizedIs
<1>2. PICK B : b \in Seq(B)
  BY SizedIs
<1> DEFINE T == A \cup B
<1>3. a \in Seq(T) /\ b \in Seq(T)
  BY <1>1, <1>2
<1> HIDE DEF T
<1>4. /\ a \o b \in Seq(T) /\ Len(a \o b) = Len(a) + Len(b)
      /\ \A i \in 1 .. Len(a) + Len(b) : (a \o b)[i] = IF i <= Len(a) THEN a[i] ELSE b[i - Len(a)]
  BY <1>3, ConcatProperties
<1>5. ASSUME NEW i \in 1 .. Len(a \o b)
      PROVE  "size" \in DOMAIN (a \o b)[i] /\ (a \o b)[i].size \in sizes
  <2>1. /\ Len(a) \in Nat /\ Len(b) \in Nat
        /\ \A j \in 1 .. Len(a) : "size" \in DOMAIN a[j] /\ a[j].size \in sizes
        /\ \A j \in 1 .. Len(b) : "size" \in DOMAIN b[j] /\ b[j].size \in sizes
    BY SizedIs
  <2>2. CASE i <= Len(a)
    <3>1. (a \o b)[i] = a[i] /\ i \in 1 .. Len(a)
      BY <1>4, <2>1, <2>2
    <3> QED BY <2>1, <3>1
  <2>3. CASE ~(i <= Len(a))
    <3>1. (a \o b)[i] = b[i - Len(a)] /\ i - Len(a) \in 1 .. Len(b)
      BY <1>4, <2>1, <2>3
    <3> QED BY <2>1, <3>1
  <2> QED BY <2>2, <2>3
<1> QED BY <1>4, <1>5, SizedOf

LEMMA SizedAppend ==
  ASSUME NEW s, NEW sizes, Sized(s, sizes), NEW b, "size" \in DOMAIN b, b.size \in sizes
  PROVE  Sized(Append(s, b), sizes)
<1>1. PICK T : s \in Seq(T)
  BY SizedIs
<1> DEFINE U == T \cup {b}
<1>2. s \in Seq(U) /\ b \in U
  BY <1>1
<1> HIDE DEF U
<1>3. /\ Append(s, b) \in Seq(U) /\ Len(s) \in Nat /\ Len(Append(s, b)) = Len(s) + 1
      /\ \A i \in 1 .. Len(s) : Append(s, b)[i] = s[i]
      /\ Append(s, b)[Len(s) + 1] = b
  BY <1>2
<1>4. ASSUME NEW i \in 1 .. Len(Append(s, b))
      PROVE  "size" \in DOMAIN Append(s, b)[i] /\ Append(s, b)[i].size \in sizes
  <2>1. i \in 1 .. Len(s) \/ i = Len(s) + 1
    BY <1>3
  <2>2. \A j \in 1 .. Len(s) : "size" \in DOMAIN s[j] /\ s[j].size \in sizes
    BY SizedIs
  <2> QED BY <1>3, <2>1, <2>2
<1> QED BY <1>3, <1>4, SizedOf

LEMMA SizedPrefix ==
  ASSUME NEW s, NEW sizes, Sized(s, sizes), NEW m \in Int, m <= Len(s)
  PROVE  Sized(SubSeq(s, 1, m), sizes)
<1>1. PICK T : s \in Seq(T)
  BY SizedIs
<1>2. Len(s) \in Nat /\ \A j \in 1 .. Len(s) : "size" \in DOMAIN s[j] /\ s[j].size \in sizes
  BY SizedIs
<1>3. /\ SubSeq(s, 1, m) \in Seq(T) /\ Len(SubSeq(s, 1, m)) <= Len(s)
      /\ Len(SubSeq(s, 1, m)) \in Nat
      /\ \A i \in 1 .. Len(SubSeq(s, 1, m)) : SubSeq(s, 1, m)[i] = s[i]
  BY <1>1, <1>2
<1>4. \A i \in 1 .. Len(SubSeq(s, 1, m)) : i \in 1 .. Len(s)
  BY <1>2, <1>3
<1> QED BY <1>2, <1>3, <1>4, SizedOf

\* Completing the last block does not change its size.
LEMMA SizedFixed ==
  ASSUME NEW w, NEW buf, NEW sizes, Sized(buf, sizes)
  PROVE  Sized(Fixed(w, buf), sizes)
<1>1. CASE buf = <<>>
  BY <1>1, SizedEmpty DEF Fixed
<1>2. CASE buf # <<>>
  <2>1. PICK T : buf \in Seq(T)
    BY SizedIs
  <2>2. Len(buf) \in Nat /\ \A j \in 1 .. Len(buf) : "size" \in DOMAIN buf[j] /\ buf[j].size \in sizes
    BY SizedIs
  <2> DEFINE last == [buf[Len(buf)] EXCEPT !.whole_min = cb[w].min]
             U == T \cup {last}
             new == [buf EXCEPT ![Len(buf)] = last]
  <2>3. Fixed(w, buf) = new
    BY <1>2 DEF Fixed
  <2>4. Len(buf) \in 1 .. Len(buf)
    BY <1>2, <2>1
  <2>5. "size" \in DOMAIN last /\ last.size \in sizes
    BY <2>2, <2>4
  <2> HIDE DEF last
  <2>6. last \in U /\ buf \in Seq(U)
    BY <2>1
  <2> HIDE DEF U
  <2>7. /\ new \in Seq(U) /\ Len(new) = Len(buf)
        /\ \A i \in 1 .. Len(buf) : new[i] = IF i = Len(buf) THEN last ELSE buf[i]
    BY <2>4, <2>6
  <2> HIDE DEF new
  <2>8. \A i \in 1 .. Len(new) : "size" \in DOMAIN new[i] /\ new[i].size \in sizes
    BY <2>2, <2>5, <2>7
  <2> QED BY <2>3, <2>7, <2>8, SizedOf
<1> QED BY <1>1, <1>2

LEMMA FilesMove ==
  ASSUME NEW files, NEW sizes, NEW more, FilesOk(files, sizes), sizes \subseteq more
  PROVE  FilesOk(files, more)
  BY SizedMove DEF FilesOk, FileOk

LEMMA OpenedOk ==
  ASSUME NEW files, NEW sizes, FilesOk(files, sizes), NEW n
  PROVE  FilesOk(Opened(files, n), sizes)
<1> DEFINE new == [content |-> <<>>, synced |-> 0]
<1>1. FileOk(new, sizes)
  BY SizedEmpty DEF FileOk
<1> HIDE DEF new
<1>2. Opened(files, n) = [m \in DOMAIN files \cup {n} |-> IF m \in DOMAIN files THEN files[m] ELSE new]
  BY DEF Opened, new
<1> QED BY <1>1, <1>2 DEF FilesOk

LEMMA RemovedOk ==
  ASSUME NEW files, NEW sizes, FilesOk(files, sizes), NEW n
  PROVE  FilesOk(Removed(files, n), sizes)
  BY DEF FilesOk, Removed

LEMMA WrittenOk ==
  ASSUME NEW files, NEW sizes, FilesOk(files, sizes), NEW n, NEW units, Sized(units, sizes)
  PROVE  FilesOk(Written(files, n, units), sizes)
<1>1. CASE n \notin DOMAIN files
  BY <1>1 DEF Written
<1>2. CASE n \in DOMAIN files
  <2> DEFINE f == files[n]
             g == [f EXCEPT !.content = @ \o units]
  <2>1. FileOk(f, sizes)
    BY <1>2 DEF FilesOk
  <2>2. Sized(f.content \o units, sizes)
    BY <2>1, SizedConcat DEF FileOk
  <2>3. FileOk(g, sizes)
    BY <2>1, <2>2 DEF FileOk
  <2>4. Written(files, n, units) = [files EXCEPT ![n] = g]
    BY <1>2 DEF Written
  <2> HIDE DEF g
  <2> QED BY <2>3, <2>4 DEF FilesOk
<1> QED BY <1>1, <1>2

LEMMA SyncedOk ==
  ASSUME NEW files, NEW sizes, FilesOk(files, sizes), NEW n
  PROVE  FilesOk(Synced(files, n), sizes)
<1>1. CASE n \notin DOMAIN files
  BY <1>1 DEF Synced
<1>2. CASE n \in DOMAIN files
  <2> DEFINE f == files[n]
             g == [f EXCEPT !.synced = Len(f.content)]
  <2>1. FileOk(f, sizes)
    BY <1>2 DEF FilesOk
  <2>2. Len(f.content) \in Nat
    BY <2>1, SizedIs DEF FileOk
  <2>3. FileOk(g, sizes)
    BY <2>1, <2>2 DEF FileOk
  <2>4. Synced(files, n) = [files EXCEPT ![n] = g]
    BY <1>2 DEF Synced
  <2> HIDE DEF g
  <2> QED BY <2>3, <2>4 DEF FilesOk
<1> QED BY <1>1, <1>2

LEMMA SurvivingOk ==
  ASSUME NEW files, NEW sizes, FilesOk(files, sizes), NEW left \in Surviving(files)
  PROVE  FilesOk(left, sizes)
<1> DEFINE kept(n, lost) == SubSeq(files[n].content, 1, Len(files[n].content) - lost[n])
           L == {l \in [DOMAIN files -> UNION {0 .. Unsynced(files, n) : n \in DOMAIN files}] :
                   \A n \in DOMAIN files : l[n] <= Unsynced(files, n)}
<1>1. PICK lost \in L :
        left = [n \in DOMAIN files |-> [content |-> kept(n, lost), synced |-> Len(kept(n, lost))]]
  BY DEF Surviving
<1>2. ASSUME NEW n \in DOMAIN files PROVE lost[n] \in Nat
  <2>1. PICK m \in DOMAIN files : lost[n] \in 0 .. Unsynced(files, m)
    BY <1>1, <1>2
  <2>2. Unsynced(files, m) \in Int
    BY SMTT(60), SizedIs DEF Unsynced, FilesOk, FileOk
  <2> QED BY <2>1, <2>2
<1>3. ASSUME NEW n \in DOMAIN files PROVE FileOk(left[n], sizes)
  <2>1. Sized(files[n].content, sizes) /\ Len(files[n].content) \in Nat
    BY <1>3, SizedIs DEF FilesOk, FileOk
  <2>2. /\ Len(files[n].content) - lost[n] \in Int
        /\ Len(files[n].content) - lost[n] <= Len(files[n].content)
    BY <2>1, <1>2, <1>3
  <2>3. Sized(kept(n, lost), sizes)
    BY <2>1, <2>2, SizedPrefix
  <2>4. Len(kept(n, lost)) \in Nat
    BY <2>3, SizedIs
  <2>5. left[n] = [content |-> kept(n, lost), synced |-> Len(kept(n, lost))]
    BY <1>1
  <2> HIDE DEF kept
  <2> QED BY <2>3, <2>4, <2>5 DEF FileOk
<1> QED BY <1>1, <1>3 DEF FilesOk
-----------------------------------------------------------------------------
(* One task goes on.                                                       *)

LEMMA SizesStay ==
  ASSUME Stays
  PROVE  LogSizes \subseteq LogSizes'
  BY DEF Stays, LogSizes

LEMMA EndedOk == \A sizes : TaskOk(Ended, sizes) /\ Ended.pc = "ended"
<1> SUFFICES ASSUME NEW sizes PROVE TaskOk(Ended, sizes) /\ Ended.pc = "ended"
  OBVIOUS
<1>1. Ended.pc = "ended" /\ Ended.then = <<>> /\ Ended.buf = <<>>
  BY DEF Ended
<1>2. Sized(Ended.buf, sizes)
  BY <1>1, SizedEmpty
<1>3. "ended" \in Places /\ <<>> \in Returns("ended")
  BY DEF Places, Turns, Returns, Writings, Removals, Manifests
<1> QED BY <1>1, <1>2, <1>3 DEF TaskOk

\* A step of one task, which may end its opening.
LEMMA Becoming ==
  ASSUME IInv, NEW w \in Writers, NEW t, Becomes(w, t),
         task[w].pc # "ended", TaskOk(t, LogSizes),
         Configured', Stays, FilesOk(data', LogSizes), gen' = gen,
         holder' # "nothing" => config' # NoConfig,
         t.pc \in Openings => w = gen /\ holder' \in {"opening", "opening reader"},
         holder' # holder => w = gen
  PROVE  IInv'
<1>1. LogSizes \subseteq LogSizes'
  BY SizesStay
<1>2. task' = [task EXCEPT ![w] = t] /\ DOMAIN task = Writers
  BY DEF Becomes, IInv, TaskInv
<1>3. FilesOk(data', LogSizes')
  BY <1>1, FilesMove
<1>4. TaskInv'
  <2>1. DOMAIN task' = Writers
    BY <1>2
  <2>2. ASSUME NEW u \in Writers PROVE TaskOk(task'[u], LogSizes')
    <3>1. TaskOk(task'[u], LogSizes)
      BY <1>2 DEF IInv, TaskInv
    <3> QED BY <3>1, <1>1, SizedMove DEF TaskOk
  <2> QED BY <2>1, <2>2 DEF TaskInv
<1>5. ~(w > gen)
  BY EndedOk DEF IInv, OpeningInv
<1>6. OpeningInv'
  <2>1. ASSUME NEW u \in Writers
        PROVE  /\ u > gen' => task'[u] = Ended
               /\ task'[u].pc \in Openings => u = gen' /\ holder' \in {"opening", "opening reader"}
    <3>1. CASE u = w
      BY <3>1, <1>2, <1>5
    <3>2. CASE u # w
      <4>1. task'[u] = task[u]
        BY <3>2, <1>2
      <4>2. /\ u > gen => task[u] = Ended
            /\ task[u].pc \in Openings => u = gen /\ holder \in {"opening", "opening reader"}
        BY DEF IInv, OpeningInv
      <4> QED BY <3>2, <4>1, <4>2
    <3> QED BY <3>1, <3>2
  <2> QED BY <2>1 DEF IInv, OpeningInv
<1> QED BY <1>3, <1>4, <1>6 DEF IInv

\* A step that leaves caller and configuration alone.
LEMMA GoesOn ==
  ASSUME IInv, NEW w \in Writers, NEW t, Becomes(w, t),
         task[w].pc # "ended", TaskOk(t, LogSizes),
         FilesOk(data', LogSizes), UNCHANGED <<configuration, gen, holder>>,
         t.pc \in Openings => task[w].pc \in Openings
  PROVE  IInv'
<1>1. UNCHANGED <<text, saving, config>>
  BY DEF configuration
<1>2. Configured' /\ Stays
  BY <1>1, KeepStep DEF IInv
<1>3. /\ holder' # "nothing" => config' # NoConfig
      /\ t.pc \in Openings => w = gen /\ holder' \in {"opening", "opening reader"}
  BY <1>1 DEF IInv, OpeningInv
<1> QED BY <1>2, <1>3, Becoming

\* A task fails, and with it the call that waits for it.
LEMMA FailsStep ==
  ASSUME IInv, NEW w \in Writers, task[w].pc # "ended", Fails(w)
  PROVE  IInv'
<1>1. /\ Becomes(w, Ended) /\ data' = data /\ gen' = gen
      /\ \/ w = gen /\ holder' = "nothing" /\ DropConfig
         \/ UNCHANGED <<holder, configuration>>
  BY DEF Fails, disk
<1>2. /\ UNCHANGED <<text, saving>> /\ (config' = config \/ config' = NoConfig)
      /\ holder' # "nothing" => config' # NoConfig
      /\ holder' # holder => w = gen
  BY <1>1 DEF DropConfig, configuration, IInv, OpeningInv
<1>3. Configured' /\ Stays
  BY <1>2, KeepStep DEF IInv
<1>4. TaskOk(Ended, LogSizes) /\ Ended.pc \notin Openings
  BY EndedOk DEF Openings
<1>5. FilesOk(data', LogSizes)
  BY <1>1 DEF IInv
<1> QED BY <1>1, <1>2, <1>3, <1>4, <1>5, Becoming

\* What a running task is, and what it becomes by going elsewhere.
LEMMA Running ==
  ASSUME IInv, NEW w \in Writers
  PROVE  /\ DOMAIN task = Writers /\ DOMAIN task[w] = DOMAIN Ended
         /\ DOMAIN Ended = {"pc", "then", "names", "buf", "min", "last_min", "no_use", "filled",
                            "flushed", "block_size", "buf_size", "data", "data_size", "mani",
                            "mani_size"}
         /\ task[w].pc \in Places /\ task[w].then \in Returns(task[w].pc)
         /\ Sized(task[w].buf, LogSizes)
         /\ task[w].pc # "ended" => task[w].block_size \in LogSizes
         /\ FilesOk(data, LogSizes)
<1>1. TaskOk(task[w], LogSizes) /\ DOMAIN task = Writers
  BY DEF IInv, TaskInv
<1>2. DOMAIN Ended = {"pc", "then", "names", "buf", "min", "last_min", "no_use", "filled",
                      "flushed", "block_size", "buf_size", "data", "data_size", "mani",
                      "mani_size"}
  BY DEF Ended
<1> QED BY <1>1, <1>2 DEF TaskOk, IInv

LEMMA ReturnsAre ==
  /\ \A l \in Writings : l \in Places /\ l \notin Openings /\ Returns(l) = {<<"pop">>, <<"lsn">>}
  /\ \A l \in Removals : /\ l \in Places /\ l \notin Openings
                         /\ Returns(l) = {<<"top">>, <<"mani", "top">>, <<"flushed", "pop">>,
                                          <<"flushed", "lsn">>}
  /\ \A l \in Manifests : /\ l \in Places /\ l \notin Openings
                          /\ Returns(l) = {<<"top">>, <<"list", "top">>, <<"list", "mani", "top">>,
                                           <<"write", "pop">>, <<"write", "lsn">>}
  /\ \A l \in Turns : l \in Places /\ l \notin Openings /\ Returns(l) = {<<>>}
  /\ \A l \in Openings : l \in Places /\ Returns(l) = {<<>>}
  BY DEF Returns, Places, Openings, Writings, Removals, Manifests, Turns
LEMMA CallIs ==
  ASSUME NEW t, DOMAIN t = DOMAIN Ended, NEW l, NEW r
  PROVE  /\ DOMAIN Call(t, l, r) = DOMAIN Ended
         /\ Call(t, l, r).pc = l /\ Call(t, l, r).then = r \o t.then
         /\ Call(t, l, r).buf = t.buf /\ Call(t, l, r).block_size = t.block_size
<1>1. {"pc", "then", "buf", "block_size"} \subseteq DOMAIN t
  BY DEF Ended
<1> QED BY <1>1 DEF Call

LEMMA ReturnIs ==
  ASSUME NEW t, DOMAIN t = DOMAIN Ended
  PROVE  /\ DOMAIN Return(t) = DOMAIN Ended
         /\ Return(t).pc = Head(t.then) /\ Return(t).then = Tail(t.then)
         /\ Return(t).buf = t.buf /\ Return(t).block_size = t.block_size
<1>1. {"pc", "then", "buf", "block_size"} \subseteq DOMAIN t
  BY DEF Ended
<1> QED BY <1>1 DEF Return

LEMMA OneAndOne == \A a, b : <<a>> \o <<b>> = <<a, b>>
<1> SUFFICES ASSUME NEW a, NEW b PROVE <<a>> \o <<b>> = <<a, b>>
  OBVIOUS
<1> DEFINE s == <<a>> \o <<b>>
<1>1. <<a>> \in Seq({a, b}) /\ <<b>> \in Seq({a, b})
  OBVIOUS
<1>2. s \in Seq({a, b}) /\ Len(s) = 2 /\ s[1] = a /\ s[2] = b
  BY <1>1, ConcatProperties
<1> HIDE DEF s
<1>3. s = <<a, b>>
  BY <1>2
<1> QED BY <1>3 DEF s

LEMMA OneAndTwo == \A a, b, c : <<a>> \o <<b, c>> = <<a, b, c>>
<1> SUFFICES ASSUME NEW a, NEW b, NEW c PROVE <<a>> \o <<b, c>> = <<a, b, c>>
  OBVIOUS
<1> DEFINE s == <<a>> \o <<b, c>>
<1>1. <<a>> \in Seq({a, b, c}) /\ <<b, c>> \in Seq({a, b, c})
  OBVIOUS
<1>2. s \in Seq({a, b, c}) /\ Len(s) = 3 /\ s[1] = a /\ s[2] = b /\ s[3] = c
  BY <1>1, ConcatProperties
<1> HIDE DEF s
<1>3. s = <<a, b, c>>
  BY <1>2
<1> QED BY <1>3 DEF s

\* Short sequences: the ones a task returns by.
LEMMA Stacks ==
  /\ \A a : <<a>> \o <<>> = <<a>>
  /\ \A a, b : <<a>> \o <<b>> = <<a, b>>
  /\ \A a, b : <<a, b>> \o <<>> = <<a, b>>
  /\ \A a, b, c : <<a>> \o <<b, c>> = <<a, b, c>>
  /\ \A a, b, c : <<a, b, c>> \o <<>> = <<a, b, c>>
<1>1. \A a : <<a>> \o <<>> = <<a>>
  OBVIOUS
<1>2. \A a, b : <<a>> \o <<b>> = <<a, b>>
  BY OneAndOne
<1>3. \A a, b : <<a, b>> \o <<>> = <<a, b>>
  OBVIOUS
<1>4. \A a, b, c : <<a>> \o <<b, c>> = <<a, b, c>>
  BY OneAndTwo
<1>5. \A a, b, c : <<a, b, c>> \o <<>> = <<a, b, c>>
  OBVIOUS
<1> QED BY <1>1, <1>2, <1>3, <1>4, <1>5

LEMMA Tops ==
  /\ \A a : Head(<<a>>) = a /\ Tail(<<a>>) = <<>>
  /\ \A a, b : Head(<<a, b>>) = a /\ Tail(<<a, b>>) = <<b>>
  /\ \A a, b, c : Head(<<a, b, c>>) = a /\ Tail(<<a, b, c>>) = <<b, c>>
<1>1. \A a : Head(<<a>>) = a /\ Tail(<<a>>) = <<>>
  OBVIOUS
<1>2. \A a, b : Head(<<a, b>>) = a /\ Tail(<<a, b>>) = <<b>>
  OBVIOUS
<1>3. \A a, b, c : Head(<<a, b, c>>) = a /\ Tail(<<a, b, c>>) = <<b, c>>
  OBVIOUS
<1> QED BY <1>1, <1>2, <1>3

\* Whatever a task was called from, it goes on where it may.
LEMMA ReturnOk ==
  ASSUME NEW t, NEW sizes, TaskOk(t, sizes), t.pc \in Writings \cup Removals \cup Manifests,
         t.pc \in Writings => t.pc = "flushed"
  PROVE  TaskOk(Return(t), sizes) /\ Return(t).pc \notin Openings
<1>1. /\ DOMAIN t = DOMAIN Ended /\ t.then \in Returns(t.pc) /\ Sized(t.buf, sizes)
      /\ t.block_size \in sizes
  <2>1. t.pc # "ended"
    BY DEF Writings, Removals, Manifests
  <2> QED BY <2>1 DEF TaskOk
<1>2. /\ DOMAIN Return(t) = DOMAIN Ended
      /\ Return(t).pc = Head(t.then) /\ Return(t).then = Tail(t.then)
      /\ Return(t).buf = t.buf /\ Return(t).block_size = t.block_size
  BY <1>1, ReturnIs
<1>3. \/ t.then \in {<<"pop">>, <<"lsn">>}
      \/ t.then \in {<<"top">>, <<"mani", "top">>, <<"flushed", "pop">>, <<"flushed", "lsn">>}
      \/ t.then \in {<<"top">>, <<"list", "top">>, <<"list", "mani", "top">>,
                     <<"write", "pop">>, <<"write", "lsn">>}
  BY <1>1, ReturnsAre
<1>4. \/ Return(t).pc \in {"pop", "lsn", "top"} /\ Return(t).then = <<>>
      \/ Return(t).pc = "mani" /\ Return(t).then = <<"top">>
      \/ Return(t).pc \in {"flushed", "write"} /\ Return(t).then \in {<<"pop">>, <<"lsn">>}
      \/ Return(t).pc = "list" /\ Return(t).then \in {<<"top">>, <<"mani", "top">>}
  <2>1. CASE t.then \in {<<"pop">>, <<"lsn">>, <<"top">>}
    BY ZenonT(60), SMTT(60), <1>2, <2>1, Tops
  <2>2. CASE t.then \in {<<"mani", "top">>, <<"flushed", "pop">>, <<"flushed", "lsn">>}
    <3>1. CASE t.then = <<"mani", "top">>
      BY <1>2, <3>1, Tops
    <3>2. CASE t.then = <<"flushed", "pop">>
      BY <1>2, <3>2, Tops
    <3>3. CASE t.then = <<"flushed", "lsn">>
      BY <1>2, <3>3, Tops
    <3> QED BY <2>2, <3>1, <3>2, <3>3
  <2>3. CASE t.then \in {<<"list", "top">>, <<"write", "pop">>, <<"write", "lsn">>}
    <3>1. CASE t.then = <<"list", "top">>
      BY <1>2, <3>1, Tops
    <3>2. CASE t.then = <<"write", "pop">>
      BY <1>2, <3>2, Tops
    <3>3. CASE t.then = <<"write", "lsn">>
      BY <1>2, <3>3, Tops
    <3> QED BY <2>3, <3>1, <3>2, <3>3
  <2>4. CASE t.then = <<"list", "mani", "top">>
    BY <1>2, <2>4, Tops
  <2> QED BY <1>3, <2>1, <2>2, <2>3, <2>4
<1>5. /\ {"pop", "lsn", "top"} \subseteq Turns /\ "mani" \in Manifests
      /\ {"flushed", "write"} \subseteq Writings /\ "list" \in Removals
  BY DEF Turns, Manifests, Writings, Removals
<1>6. /\ Return(t).pc \in Places /\ Return(t).pc \notin Openings
      /\ Return(t).then \in Returns(Return(t).pc)
  BY ZenonT(60), SMTT(60), <1>4, <1>5, ReturnsAre
<1> QED BY <1>1, <1>2, <1>6 DEF TaskOk

-----------------------------------------------------------------------------
(* Opening.                                                                *)

\* A step from one place of the opening to the next.
LEMMA OpeningGoes ==
  ASSUME IInv, NEW w \in Writers, task[w].pc \in Openings,
         NEW t, DOMAIN t = DOMAIN Ended, t.buf = task[w].buf,
         t.block_size = task[w].block_size, t.then = task[w].then,
         t.pc \in Openings \cup {"start"}
  PROVE  task[w].pc # "ended" /\ TaskOk(t, LogSizes)
<1>1. task[w].pc # "ended" /\ "start" \in Turns
  BY DEF Openings, Turns
<1>2. t.pc \in Places /\ t.then \in Returns(t.pc)
  BY <1>1, Running, ReturnsAre
<1> QED BY <1>1, <1>2, Running DEF TaskOk

\* The opening goes on to another place.
LEMMA OpeningOn ==
  ASSUME IInv, NEW w \in Writers, task[w].pc \in Openings,
         NEW t, Becomes(w, t), DOMAIN t = DOMAIN Ended, t.buf = task[w].buf,
         t.block_size = task[w].block_size, t.then = task[w].then,
         t.pc \in Openings \cup {"start"},
         FilesOk(data', LogSizes), UNCHANGED <<configuration, gen, holder>>
  PROVE  IInv'
  BY OpeningGoes, GoesOn

LEMMA RestoreSteps ==
  ASSUME IInv, NEW w \in Writers, RestoreMani(w) \/ RestoreData(w)
  PROVE  IInv'
<1>1. /\ task[w].pc \in {"names", "data_names"} /\ data' = data
      /\ UNCHANGED <<configuration, gen, holder>>
  BY DEF RestoreMani, RestoreData, At, disk, Shared, caller
<1>2. task[w].pc \in Openings
  BY <1>1 DEF Openings
<1>3. CASE RestoreMani(w)
  <2> DEFINE t == [task[w] EXCEPT !.pc = "data_names",
                                  !.mani = IF mani = NoFiles THEN NoName ELSE Latest(mani)]
  <2>1. /\ DOMAIN t = DOMAIN Ended /\ t.buf = task[w].buf /\ t.then = task[w].then
        /\ t.block_size = task[w].block_size /\ t.pc \in Openings
    BY Running DEF Openings
  <2>2. Becomes(w, t)
    BY <1>3 DEF RestoreMani
  <2> HIDE DEF t
  <2> QED BY <1>1, <1>2, <2>1, <2>2, Running, OpeningOn
<1>4. CASE RestoreData(w)
  <2> DEFINE t == [task[w] EXCEPT !.pc = "mani_lsn",
                                  !.data = IF data = NoFiles THEN NoName ELSE Latest(data)]
  <2>1. /\ DOMAIN t = DOMAIN Ended /\ t.buf = task[w].buf /\ t.then = task[w].then
        /\ t.block_size = task[w].block_size /\ t.pc \in Openings
    BY Running DEF Openings
  <2>2. Becomes(w, t)
    BY <1>4 DEF RestoreData
  <2> HIDE DEF t
  <2> QED BY <1>1, <1>2, <2>1, <2>2, Running, OpeningOn
<1> QED BY <1>3, <1>4

\* The log of a writer is opened next; a reader has what it needs.
LEMMA RestoredStep ==
  ASSUME IInv, NEW w \in Writers, task[w].pc \in Openings, NEW lo, NEW hi, Restored(w, lo, hi)
  PROVE  IInv'
<1>1. data' = data /\ UNCHANGED <<configuration, gen>>
  BY DEF Restored, disk, configuration
<1>2. w = gen /\ holder \in {"opening", "opening reader"} /\ config # NoConfig
  BY DEF IInv, OpeningInv
<1>3. CASE holder = "opening"
  <2> DEFINE t == [task[w] EXCEPT !.pc = "open_mani"]
  <2>1. /\ DOMAIN t = DOMAIN Ended /\ t.buf = task[w].buf /\ t.then = task[w].then
        /\ t.block_size = task[w].block_size /\ t.pc \in Openings
    BY Running DEF Openings
  <2>2. Becomes(w, t) /\ UNCHANGED holder
    BY <1>3, Running DEF Restored, Goto, Becomes
  <2> HIDE DEF t
  <2> QED BY <1>1, <2>1, <2>2, Running, OpeningOn
<1>4. CASE holder # "opening"
  <2>1. Becomes(w, Ended) /\ holder' = "reader"
    BY <1>4 DEF Restored
  <2>2. UNCHANGED <<text, saving, config>>
    BY <1>1 DEF configuration
  <2>3. Configured' /\ Stays
    BY <2>2, KeepStep DEF IInv
  <2>4. task[w].pc # "ended" /\ Ended.pc \notin Openings
    BY EndedOk DEF Openings
  <2> QED BY <1>1, <1>2, <2>1, <2>2, <2>3, <2>4, EndedOk, Running, Becoming
<1> QED BY <1>3, <1>4

LEMMA RestoreMinStep ==
  ASSUME IInv, NEW w \in Writers, RestoreMin(w)
  PROVE  IInv'
<1>1. task[w].pc \in Openings
  BY DEF RestoreMin, At, Openings
<1>2. CASE mani = NoFiles
  BY <1>1, <1>2, RestoredStep DEF RestoreMin
<1>3. CASE mani # NoFiles
  <2> DEFINE entries == mani[Latest(mani)].content
             t == [task[w] EXCEPT !.min = IF entries = <<>> THEN 0 ELSE Last(entries),
                                  !.pc = IF entries = <<>> THEN "no_lsn" ELSE "data_lsn"]
  <2>1. /\ DOMAIN t = DOMAIN Ended /\ t.buf = task[w].buf /\ t.then = task[w].then
        /\ t.block_size = task[w].block_size /\ t.pc \in Openings
    BY Running DEF Openings
  <2>2. Becomes(w, t) /\ data' = data /\ UNCHANGED <<configuration, gen, holder>>
    BY <1>3 DEF RestoreMin, disk, Shared, caller
  <2> HIDE DEF t
  <2> QED BY <1>1, <2>1, <2>2, Running, OpeningOn
<1> QED BY <1>2, <1>3

LEMMA RestoreMaxStep ==
  ASSUME IInv, NEW w \in Writers, RestoreMax(w)
  PROVE  IInv'
<1>1. task[w].pc \in Openings /\ task[w].pc # "ended"
  BY DEF RestoreMax, At, Openings
<1>2. Fails(w) \/ \E lo, hi : Restored(w, lo, hi)
  BY DEF RestoreMax
<1> QED BY <1>1, <1>2, FailsStep, RestoredStep

LEMMA OpenManiStep ==
  ASSUME IInv, NEW w \in Writers, OpenMani(w)
  PROVE  IInv'
<1>1. task[w].pc \in Openings /\ task[w].pc # "ended"
  BY DEF OpenMani, At, Openings
<1>2. CASE Fails(w)
  BY <1>1, <1>2, FailsStep
<1>3. CASE ~Fails(w)
  <2> DEFINE name == IF task[w].mani = NoName THEN <<0, 0>> ELSE task[w].mani
             t == [task[w] EXCEPT !.pc = "open_data", !.mani = name,
                                  !.mani_size = Len(mani'[name].content)]
  <2>1. /\ DOMAIN t = DOMAIN Ended /\ t.buf = task[w].buf /\ t.then = task[w].then
        /\ t.block_size = task[w].block_size /\ t.pc \in Openings
    BY Running DEF Openings
  <2>2. Becomes(w, t) /\ data' = data /\ UNCHANGED <<configuration, gen, holder>>
    BY <1>3 DEF OpenMani, Shared, caller
  <2> HIDE DEF t
  <2> QED BY <1>1, <2>1, <2>2, Running, OpeningOn
<1> QED BY <1>2, <1>3

LEMMA OpenDataStep ==
  ASSUME IInv, NEW w \in Writers, OpenData(w)
  PROVE  IInv'
<1>1. task[w].pc \in Openings /\ task[w].pc # "ended"
  BY DEF OpenData, At, Openings
<1>2. CASE Fails(w)
  BY <1>1, <1>2, FailsStep
<1>3. CASE ~Fails(w)
  <2> DEFINE name == IF task[w].data = NoName THEN GenRotName(0, 0) ELSE task[w].data
             t == [task[w] EXCEPT !.pc = "start", !.data = name,
                                  !.data_size = Len(data'[name].content)]
  <2>1. /\ DOMAIN t = DOMAIN Ended /\ t.buf = task[w].buf /\ t.then = task[w].then
        /\ t.block_size = task[w].block_size /\ t.pc = "start"
    BY Running
  <2>2. /\ Becomes(w, t) /\ data' = Opened(data, name) /\ UNCHANGED <<configuration, gen>>
        /\ holder' = "writer"
    BY <1>3 DEF OpenData
  <2> HIDE DEF t, name
  <2>3. w = gen /\ config # NoConfig
    BY <1>1 DEF IInv, OpeningInv
  <2>4. UNCHANGED <<text, saving, config>>
    BY <2>2 DEF configuration
  <2>5. Configured' /\ Stays
    BY <2>4, KeepStep DEF IInv
  <2>6. FilesOk(data', LogSizes)
    BY <2>2, Running, OpenedOk
  <2>7. TaskOk(t, LogSizes) /\ t.pc \notin Openings
    BY <1>1, <2>1, OpeningGoes DEF Openings
  <2> QED BY <1>1, <2>2, <2>3, <2>4, <2>5, <2>6, <2>7, Becoming
<1> QED BY <1>2, <1>3

LEMMA OpeningStep ==
  ASSUME IInv, NEW w \in Writers, Opening(w)
  PROVE  IInv'
  BY RestoreSteps, RestoreMinStep, RestoreMaxStep, OpenManiStep, OpenDataStep DEF Opening
-----------------------------------------------------------------------------
(* Flushing.                                                               *)

\* A step of a task that runs, to any other place of its loop.
LEMMA FlushingOn ==
  ASSUME IInv, NEW w \in Writers, task[w].pc # "ended",
         NEW t, Becomes(w, t), DOMAIN t = DOMAIN Ended, Sized(t.buf, LogSizes),
         t.block_size = task[w].block_size,
         t.pc \in Writings \cup Removals \cup Manifests \cup Turns, t.then \in Returns(t.pc),
         FilesOk(data', LogSizes), UNCHANGED <<configuration, gen, holder>>
  PROVE  IInv'
<1>1. t.pc \in Places /\ t.pc \notin Openings
  BY ReturnsAre
<1>2. TaskOk(t, LogSizes)
  BY <1>1, Running DEF TaskOk
<1> QED BY <1>1, <1>2, GoesOn

\* The same, back to where the task was called from.
LEMMA FlushingBack ==
  ASSUME IInv, NEW w \in Writers, task[w].pc # "ended",
         NEW t, Becomes(w, Return(t)), DOMAIN t = DOMAIN Ended, Sized(t.buf, LogSizes),
         t.block_size = task[w].block_size, t.then = task[w].then, t.pc = task[w].pc,
         t.pc \in {"flushed"} \cup Removals \cup Manifests,
         FilesOk(data', LogSizes), UNCHANGED <<configuration, gen, holder>>
  PROVE  IInv'
<1>1. TaskOk(t, LogSizes)
  BY Running DEF TaskOk
<1>2. t.pc \in Writings \cup Removals \cup Manifests /\ (t.pc \in Writings => t.pc = "flushed")
  BY DEF Writings, Removals, Manifests
<1>3. TaskOk(Return(t), LogSizes) /\ Return(t).pc \notin Openings
  BY <1>1, <1>2, ReturnOk
<1> QED BY <1>3, GoesOn

LEMMA PlacesAre ==
  /\ \A l \in {"flush", "write", "sync", "rot_sync", "rot_new", "flushed"} : l \in Writings
  /\ \A l \in {"list", "remove"} : l \in Removals
  /\ \A l \in {"mani", "mani_full", "mani_list", "mani_remove", "mani_new", "mani_sync"} :
       l \in Manifests
  /\ \A l \in {"ended", "start", "top", "pop", "lsn"} : l \in Turns
  BY DEF Writings, Removals, Manifests, Turns

\* A task in its loop, which is not called by anything.
LEMMA AtTurn ==
  ASSUME IInv, NEW w \in Writers, task[w].pc \in Turns
  PROVE  task[w].then = <<>>
  BY Running, ReturnsAre

LEMMA StartStep ==
  ASSUME IInv, NEW w \in Writers, Start(w)
  PROVE  IInv'
<1> DEFINE u == [task[w] EXCEPT !.min = cb[w].min, !.last_min = cb[w].min, !.flushed = cb[w].max]
           r == IF u.min = 0 THEN <<"mani", "top">> ELSE <<"top">>
           t == Call(u, "list", r)
<1>1. /\ task[w].pc = "start" /\ Becomes(w, t) /\ data' = data
      /\ UNCHANGED <<configuration, gen, holder>>
  BY DEF Start, At, disk, Shared, caller
<1>2. task[w].then = <<>>
  BY <1>1, AtTurn, PlacesAre
<1>3. /\ DOMAIN u = DOMAIN Ended /\ u.buf = task[w].buf /\ u.then = <<>>
      /\ u.block_size = task[w].block_size
  BY <1>2, Running
<1>4. r \in {<<"mani", "top">>, <<"top">>}
  OBVIOUS
<1> HIDE DEF u, r
<1>5. /\ DOMAIN t = DOMAIN Ended /\ t.buf = task[w].buf /\ t.block_size = task[w].block_size
      /\ t.pc = "list" /\ t.then = r
  <2>1. r \o <<>> = r
    BY <1>4, Stacks
  <2>2. /\ DOMAIN t = DOMAIN Ended /\ t.pc = "list" /\ t.then = r \o u.then
        /\ t.buf = u.buf /\ t.block_size = u.block_size
    <3>1. {"pc", "then", "buf", "block_size"} \subseteq DOMAIN u
      BY <1>3, Running
    <3> QED BY <1>3, <3>1 DEF Call
  <2> HIDE DEF t
  <2> QED BY <1>3, <2>1, <2>2
<1> HIDE DEF t
<1>6. t.pc \in Removals /\ t.then \in Returns(t.pc)
  BY <1>4, <1>5, PlacesAre, ReturnsAre, ZenonT(60)
<1> QED BY <1>1, <1>5, <1>6, Running, FlushingOn

LEMMA TopStep ==
  ASSUME IInv, NEW w \in Writers, Top(w)
  PROVE  IInv'
<1>1. /\ task[w].pc = "top" /\ task[w].pc # "ended" /\ data' = data
      /\ UNCHANGED <<configuration, gen, holder>>
  BY DEF Top, At, disk, caller
<1>2. task[w].then = <<>>
  BY <1>1, AtTurn, PlacesAre
<1>3. CASE Becomes(w, Ended)
  <2>1. TaskOk(Ended, LogSizes) /\ Ended.pc \notin Openings
    BY EndedOk DEF Openings
  <2> QED BY <1>1, <1>3, <2>1, Running, GoesOn
<1>4. CASE Goto(w, "pop")
  <2> DEFINE t == [task[w] EXCEPT !.pc = "pop"]
  <2>1. /\ DOMAIN t = DOMAIN Ended /\ t.buf = task[w].buf /\ t.block_size = task[w].block_size
        /\ t.pc = "pop" /\ t.then = <<>>
    BY <1>2, Running
  <2>2. Becomes(w, t)
    BY <1>4, Running DEF Goto, Becomes
  <2> HIDE DEF t
  <2>3. t.pc \in Turns /\ t.then \in Returns(t.pc)
    BY <2>1, PlacesAre, ReturnsAre, ZenonT(60)
  <2> QED BY <1>1, <2>1, <2>2, <2>3, Running, FlushingOn
<1> QED BY <1>3, <1>4 DEF Top

\* A block of the entry popped has the size the task was told.
LEMMA PopStep ==
  ASSUME IInv, NEW w \in Writers, Pop(w)
  PROVE  IInv'
<1> DEFINE lsn == Head(cb[w].ring)
           block == [lsn |-> lsn, whole_min |-> 0, size |-> task[w].block_size]
           buf == Append(Fixed(w, task[w].buf), block)
           u == [task[w] EXCEPT !.filled = lsn, !.flushed = lsn]
           u1 == [u EXCEPT !.buf = Fixed(w, buf), !.last_min = cb[w].min]
           t1 == Call(u1, "flush", <<"pop">>)
           t2 == [u EXCEPT !.buf = buf, !.last_min = IF Len(buf) = 1 THEN @ ELSE cb[w].min]
<1>1. /\ task[w].pc = "pop" /\ task[w].pc # "ended" /\ data' = data
      /\ UNCHANGED <<configuration, gen, holder>>
  BY DEF Pop, At, disk, caller
<1>2. task[w].then = <<>>
  BY <1>1, AtTurn, PlacesAre
<1>3. Becomes(w, t1) \/ Becomes(w, t2)
  BY DEF Pop
<1>4. Sized(buf, LogSizes) /\ Sized(Fixed(w, buf), LogSizes)
  <2>1. Sized(Fixed(w, task[w].buf), LogSizes)
    BY Running, SizedFixed
  <2>2. "size" \in DOMAIN block /\ block.size \in LogSizes
    BY <1>1, Running
  <2> HIDE DEF block
  <2>3. Sized(buf, LogSizes)
    BY <2>1, <2>2, SizedAppend
  <2> QED BY <2>3, SizedFixed
<1> HIDE DEF buf
<1>5. /\ DOMAIN u1 = DOMAIN Ended /\ u1.buf = Fixed(w, buf) /\ u1.then = <<>>
      /\ u1.block_size = task[w].block_size
  BY <1>2, Running
<1>6. /\ DOMAIN t2 = DOMAIN Ended /\ t2.buf = buf /\ t2.then = <<>> /\ t2.pc = "pop"
      /\ t2.block_size = task[w].block_size
  BY <1>1, <1>2, Running
<1> HIDE DEF u1, t2
<1>7. CASE Becomes(w, t1)
  <2>1. /\ DOMAIN t1 = DOMAIN Ended /\ t1.buf = Fixed(w, buf) /\ t1.block_size = task[w].block_size
        /\ t1.pc = "flush" /\ t1.then = <<"pop">>
    <3>1. <<"pop">> \o <<>> = <<"pop">>
      BY Stacks
    <3> QED BY <1>5, <3>1, CallIs
  <2> HIDE DEF t1
  <2>2. t1.pc \in Writings /\ t1.then \in Returns(t1.pc)
    BY <2>1, PlacesAre, ReturnsAre, ZenonT(60)
  <2> QED BY <1>1, <1>4, <1>7, <2>1, <2>2, Running, FlushingOn
<1>8. CASE Becomes(w, t2)
  <2>1. t2.pc \in Turns /\ t2.then \in Returns(t2.pc)
    BY <1>6, PlacesAre, ReturnsAre, ZenonT(60)
  <2> QED BY <1>1, <1>4, <1>6, <1>8, <2>1, Running, FlushingOn
<1> QED BY <1>3, <1>7, <1>8

LEMMA QuietStep ==
  ASSUME IInv, NEW w \in Writers, Quiet(w)
  PROVE  IInv'
<1> DEFINE u == [task[w] EXCEPT !.buf = Fixed(w, @), !.last_min = cb[w].min]
           t1 == [task[w] EXCEPT !.pc = "lsn"]
           t2 == Call(u, "flush", <<"lsn">>)
<1>1. /\ task[w].pc = "pop" /\ task[w].pc # "ended" /\ data' = data
      /\ UNCHANGED <<configuration, gen, holder>>
  BY DEF Quiet, At, disk, Shared, caller
<1>2. task[w].then = <<>>
  BY <1>1, AtTurn, PlacesAre
<1>3. Becomes(w, t1) \/ Becomes(w, t2)
  BY Running DEF Quiet, Goto, Becomes
<1>4. /\ DOMAIN t1 = DOMAIN Ended /\ t1.buf = task[w].buf /\ t1.then = <<>> /\ t1.pc = "lsn"
      /\ t1.block_size = task[w].block_size
  BY <1>2, Running
<1>5. /\ DOMAIN u = DOMAIN Ended /\ u.buf = Fixed(w, task[w].buf) /\ u.then = <<>>
      /\ u.block_size = task[w].block_size
  BY <1>2, Running
<1> HIDE DEF u, t1
<1>6. CASE Becomes(w, t1)
  <2>1. t1.pc \in Turns /\ t1.then \in Returns(t1.pc)
    BY <1>4, PlacesAre, ReturnsAre, ZenonT(60)
  <2> QED BY <1>1, <1>4, <1>6, <2>1, Running, FlushingOn
<1>7. CASE Becomes(w, t2)
  <2>1. /\ DOMAIN t2 = DOMAIN Ended /\ t2.buf = Fixed(w, task[w].buf)
        /\ t2.block_size = task[w].block_size
        /\ t2.pc = "flush" /\ t2.then = <<"lsn">>
    <3>1. <<"lsn">> \o <<>> = <<"lsn">>
      BY Stacks
    <3> QED BY <1>5, <3>1, CallIs
  <2> HIDE DEF t2
  <2>2. t2.pc \in Writings /\ t2.then \in Returns(t2.pc)
    BY <2>1, PlacesAre, ReturnsAre, ZenonT(60)
  <2>3. Sized(t2.buf, LogSizes)
    BY <2>1, Running, SizedFixed
  <2> QED BY <1>1, <1>7, <2>1, <2>2, <2>3, Running, FlushingOn
<1> QED BY <1>3, <1>6, <1>7

LEMMA LsnStep ==
  ASSUME IInv, NEW w \in Writers, Lsn(w)
  PROVE  IInv'
<1> DEFINE u == [task[w] EXCEPT !.min = cb[w].min]
           t1 == [u EXCEPT !.pc = "top"]
           t2(again) == Call(u, "mani", <<"list">> \o again)
           t3(again) == Return(Call(u, "lsn", again))
<1>1. /\ task[w].pc = "lsn" /\ task[w].pc # "ended" /\ data' = data
      /\ UNCHANGED <<configuration, gen, holder>>
  BY DEF Lsn, At, disk, Shared, caller
<1>2. task[w].then = <<>>
  BY <1>1, AtTurn, PlacesAre
<1>3. \/ Becomes(w, t1)
      \/ \E again \in {<<"top">>, <<"mani", "top">>} : Becomes(w, t2(again)) \/ Becomes(w, t3(again))
  BY DEF Lsn
<1>4. /\ DOMAIN t1 = DOMAIN Ended /\ t1.buf = task[w].buf /\ t1.then = <<>> /\ t1.pc = "top"
      /\ t1.block_size = task[w].block_size
  BY <1>2, Running
<1>5. /\ DOMAIN u = DOMAIN Ended /\ u.buf = task[w].buf /\ u.then = <<>>
      /\ u.block_size = task[w].block_size
  BY <1>2, Running
<1> HIDE DEF u, t1
<1>6. CASE Becomes(w, t1)
  <2>1. t1.pc \in Turns /\ t1.then \in Returns(t1.pc)
    BY <1>4, PlacesAre, ReturnsAre, ZenonT(60)
  <2> QED BY <1>1, <1>4, <1>6, <2>1, Running, FlushingOn
<1>7. ASSUME NEW again \in {<<"top">>, <<"mani", "top">>}, Becomes(w, t2(again))
      PROVE  IInv'
  <2> DEFINE t == t2(again)
  <2>1. /\ DOMAIN t = DOMAIN Ended /\ t.buf = task[w].buf /\ t.block_size = task[w].block_size
        /\ t.pc = "mani" /\ t.then = (<<"list">> \o again) \o <<>>
    <3> DEFINE r == <<"list">> \o again
    <3> HIDE DEF r
    <3>1. /\ DOMAIN Call(u, "mani", r) = DOMAIN Ended /\ Call(u, "mani", r).pc = "mani"
          /\ Call(u, "mani", r).then = r \o u.then
          /\ Call(u, "mani", r).buf = u.buf /\ Call(u, "mani", r).block_size = u.block_size
      <4>1. {"pc", "then", "buf", "block_size"} \subseteq DOMAIN u
        BY <1>5, Running
      <4> QED BY <1>5, <4>1 DEF Call
    <3>2. t = Call(u, "mani", r)
      BY DEF r
    <3> HIDE DEF t
    <3> QED BY <1>5, <3>1, <3>2 DEF r
  <2>2. (<<"list">> \o again) \o <<>> \in {<<"list", "top">>, <<"list", "mani", "top">>}
    <3>1. CASE again = <<"top">>
      <4>1. <<"list">> \o <<"top">> = <<"list", "top">> /\ <<"list", "top">> \o <<>> = <<"list", "top">>
        BY Stacks
      <4> QED BY <3>1, <4>1
    <3>2. CASE again = <<"mani", "top">>
      <4>1. /\ <<"list">> \o <<"mani", "top">> = <<"list", "mani", "top">>
            /\ <<"list", "mani", "top">> \o <<>> = <<"list", "mani", "top">>
        BY Stacks
      <4> QED BY <3>2, <4>1
    <3> QED BY <1>7, <3>1, <3>2
  <2> HIDE DEF t
  <2>3. t.pc \in Manifests /\ t.then \in Returns(t.pc)
    BY <2>1, <2>2, PlacesAre, ReturnsAre, ZenonT(60)
  <2>4. Becomes(w, t)
    BY <1>7 DEF t
  <2> QED BY <1>1, <2>1, <2>3, <2>4, Running, FlushingOn
<1>8. ASSUME NEW again \in {<<"top">>, <<"mani", "top">>}, Becomes(w, t3(again))
      PROVE  IInv'
  <2> DEFINE v == Call(u, "lsn", again)
             t == Return(v)
  <2>1. /\ DOMAIN v = DOMAIN Ended /\ v.buf = task[w].buf /\ v.block_size = task[w].block_size
        /\ v.then = again
    <3>1. again \o <<>> = again
      BY <1>8, Stacks
    <3> QED BY <1>5, <3>1, CallIs
  <2> HIDE DEF v
  <2>2. /\ DOMAIN t = DOMAIN Ended /\ t.buf = task[w].buf /\ t.block_size = task[w].block_size
        /\ t.pc = Head(again) /\ t.then = Tail(again)
    BY <2>1, ReturnIs
  <2> HIDE DEF t
  <2>3. \/ t.pc = "top" /\ t.then = <<>>
        \/ t.pc = "mani" /\ t.then = <<"top">>
    <3>1. CASE again = <<"top">>
      BY <2>2, <3>1, Tops
    <3>2. CASE again = <<"mani", "top">>
      BY <2>2, <3>2, Tops
    <3> QED BY <1>8, <3>1, <3>2
  <2>4. t.pc \in Manifests \cup Turns /\ t.then \in Returns(t.pc)
    BY <2>3, PlacesAre, ReturnsAre, ZenonT(60)
  <2>5. Becomes(w, t)
    BY <1>8 DEF t, v
  <2> QED BY <1>1, <2>2, <2>4, <2>5, Running, FlushingOn
<1> QED BY <1>3, <1>6, <1>7, <1>8

LEMMA FlushStep ==
  ASSUME IInv, NEW w \in Writers, Flush(w)
  PROVE  IInv'
<1> DEFINE u == [task[w] EXCEPT !.min = cb[w].min]
           t1 == Call(u, "mani", <<"write">>)
           t2 == [u EXCEPT !.pc = "write"]
<1>1. /\ task[w].pc = "flush" /\ task[w].pc # "ended" /\ data' = data
      /\ UNCHANGED <<configuration, gen, holder>>
  BY DEF Flush, At, disk, Shared, caller
<1>2. task[w].then \in {<<"pop">>, <<"lsn">>}
  BY <1>1, Running, PlacesAre, ReturnsAre, ZenonT(60)
<1>3. Becomes(w, t1) \/ Becomes(w, t2)
  BY DEF Flush
<1>4. /\ DOMAIN u = DOMAIN Ended /\ u.buf = task[w].buf /\ u.then = task[w].then
      /\ u.block_size = task[w].block_size
  BY Running
<1>5. /\ DOMAIN t2 = DOMAIN Ended /\ t2.buf = task[w].buf /\ t2.then = task[w].then
      /\ t2.pc = "write" /\ t2.block_size = task[w].block_size
  BY Running
<1> HIDE DEF u, t2
<1>6. CASE Becomes(w, t1)
  <2>1. /\ DOMAIN t1 = DOMAIN Ended /\ t1.buf = task[w].buf /\ t1.block_size = task[w].block_size
        /\ t1.pc = "mani" /\ t1.then = <<"write">> \o task[w].then
    <3>1. {"pc", "then", "buf", "block_size"} \subseteq DOMAIN u
      BY <1>4, Running
    <3>2. /\ DOMAIN t1 = DOMAIN Ended /\ t1.pc = "mani" /\ t1.then = <<"write">> \o u.then
          /\ t1.buf = u.buf /\ t1.block_size = u.block_size
      BY <1>4, <3>1 DEF Call
    <3> HIDE DEF t1
    <3> QED BY <1>4, <3>2
  <2>2. <<"write">> \o task[w].then \in {<<"write", "pop">>, <<"write", "lsn">>}
    <3>1. <<"write">> \o <<"pop">> = <<"write", "pop">> /\ <<"write">> \o <<"lsn">> = <<"write", "lsn">>
      BY Stacks
    <3> QED BY <1>2, <3>1
  <2> HIDE DEF t1
  <2>3. t1.pc \in Manifests /\ t1.then \in Returns(t1.pc)
    BY <2>1, <2>2, PlacesAre, ReturnsAre, ZenonT(60)
  <2> QED BY <1>1, <1>6, <2>1, <2>3, Running, FlushingOn
<1>7. CASE Becomes(w, t2)
  <2>1. t2.pc \in Writings /\ t2.then \in Returns(t2.pc)
    BY <1>2, <1>5, PlacesAre, ReturnsAre, ZenonT(60)
  <2> QED BY <1>1, <1>5, <1>7, <2>1, Running, FlushingOn
<1> QED BY <1>3, <1>6, <1>7

\* A step from one place of writing, removing or switching to the next.
LEMMA SameCall ==
  ASSUME IInv, NEW w \in Writers, task[w].pc \in Writings \cup Removals \cup Manifests,
         NEW t, Becomes(w, t), DOMAIN t = DOMAIN Ended, t.buf = task[w].buf,
         t.block_size = task[w].block_size, t.then = task[w].then,
         t.pc \in Writings \cup Removals \cup Manifests,
         Returns(t.pc) = Returns(task[w].pc),
         FilesOk(data', LogSizes), UNCHANGED <<configuration, gen, holder>>
  PROVE  IInv'
<1>1. task[w].pc # "ended"
  BY DEF Writings, Removals, Manifests
<1> QED BY <1>1, Running, FlushingOn

LEMMA WriteStep ==
  ASSUME IInv, NEW w \in Writers, Write(w)
  PROVE  IInv'
<1> DEFINE n == task[w].data_size + Len(task[w].buf)
           t == [task[w] EXCEPT !.data_size = n, !.pc = IF n >= RotBlocks THEN "rot_sync" ELSE "sync"]
<1>1. /\ task[w].pc = "write" /\ data' = Written(data, task[w].data, task[w].buf)
      /\ Becomes(w, t) /\ UNCHANGED <<configuration, gen, holder>>
  BY DEF Write, At, Shared, caller
<1>2. /\ DOMAIN t = DOMAIN Ended /\ t.buf = task[w].buf /\ t.then = task[w].then
      /\ t.pc \in {"rot_sync", "sync"} /\ t.block_size = task[w].block_size
  BY Running
<1> HIDE DEF t
<1>3. FilesOk(data', LogSizes)
  BY <1>1, Running, WrittenOk
<1>4. /\ task[w].pc \in Writings /\ t.pc \in Writings
      /\ Returns(t.pc) = Returns(task[w].pc)
  BY <1>1, <1>2, PlacesAre, ReturnsAre, ZenonT(60)
<1> QED BY <1>1, <1>2, <1>3, <1>4, SameCall

LEMMA SyncStep ==
  ASSUME IInv, NEW w \in Writers, Sync(w)
  PROVE  IInv'
<1> DEFINE t == [task[w] EXCEPT !.pc = IF At(w, "sync") THEN "flushed" ELSE "rot_new"]
<1>1. /\ task[w].pc \in {"sync", "rot_sync"} /\ data' = Synced(data, task[w].data)
      /\ Becomes(w, t) /\ UNCHANGED <<configuration, gen, holder>>
  BY Running DEF Sync, At, Shared, caller, Goto, Becomes
<1>2. /\ DOMAIN t = DOMAIN Ended /\ t.buf = task[w].buf /\ t.then = task[w].then
      /\ t.pc \in {"flushed", "rot_new"} /\ t.block_size = task[w].block_size
  BY Running
<1> HIDE DEF t
<1>3. FilesOk(data', LogSizes)
  BY <1>1, Running, SyncedOk
<1>4. /\ task[w].pc \in Writings /\ t.pc \in Writings
      /\ Returns(t.pc) = Returns(task[w].pc)
  BY <1>1, <1>2, PlacesAre, ReturnsAre, ZenonT(60)
<1> QED BY <1>1, <1>2, <1>3, <1>4, SameCall

LEMMA RotNewStep ==
  ASSUME IInv, NEW w \in Writers, RotNew(w)
  PROVE  IInv'
<1> DEFINE name == GenRotName(task[w].data[1] + 1, task[w].filled)
           u == [task[w] EXCEPT !.data = name, !.data_size = 0]
           t == Call(u, "list", <<"flushed">>)
<1>1. /\ task[w].pc = "rot_new" /\ task[w].pc # "ended" /\ data' = Opened(data, name)
      /\ Becomes(w, t) /\ UNCHANGED <<configuration, gen, holder>>
  BY DEF RotNew, At, Shared, caller
<1>2. task[w].then \in {<<"pop">>, <<"lsn">>}
  BY <1>1, Running, PlacesAre, ReturnsAre, ZenonT(60)
<1>3. /\ DOMAIN u = DOMAIN Ended /\ u.buf = task[w].buf /\ u.then = task[w].then
      /\ u.block_size = task[w].block_size
  BY Running
<1> HIDE DEF u, name
<1>4. /\ DOMAIN t = DOMAIN Ended /\ t.buf = task[w].buf /\ t.block_size = task[w].block_size
      /\ t.pc = "list" /\ t.then = <<"flushed">> \o task[w].then
  <2>1. {"pc", "then", "buf", "block_size"} \subseteq DOMAIN u
    BY <1>3, Running
  <2>2. /\ DOMAIN t = DOMAIN Ended /\ t.pc = "list" /\ t.then = <<"flushed">> \o u.then
        /\ t.buf = u.buf /\ t.block_size = u.block_size
    BY <1>3, <2>1 DEF Call
  <2> HIDE DEF t
  <2> QED BY <1>3, <2>2
<1>5. <<"flushed">> \o task[w].then \in {<<"flushed", "pop">>, <<"flushed", "lsn">>}
  <2>1. /\ <<"flushed">> \o <<"pop">> = <<"flushed", "pop">>
        /\ <<"flushed">> \o <<"lsn">> = <<"flushed", "lsn">>
    BY Stacks
  <2> QED BY <1>2, <2>1
<1> HIDE DEF t
<1>6. t.pc \in Removals /\ t.then \in Returns(t.pc)
  BY <1>4, <1>5, PlacesAre, ReturnsAre, ZenonT(60)
<1>7. FilesOk(data', LogSizes)
  BY <1>1, Running, OpenedOk
<1> QED BY <1>1, <1>4, <1>6, <1>7, Running, FlushingOn

LEMMA FlushedStep ==
  ASSUME IInv, NEW w \in Writers, Flushed(w)
  PROVE  IInv'
<1> DEFINE t == [task[w] EXCEPT !.buf = <<>>]
<1>1. /\ task[w].pc = "flushed" /\ task[w].pc # "ended" /\ data' = data
      /\ Becomes(w, Return(t)) /\ UNCHANGED <<configuration, gen, holder>>
  BY DEF Flushed, At, disk, caller
<1>2. /\ DOMAIN t = DOMAIN Ended /\ t.buf = <<>> /\ t.then = task[w].then
      /\ t.pc = task[w].pc /\ t.block_size = task[w].block_size
  BY Running
<1> HIDE DEF t
<1>3. Sized(t.buf, LogSizes)
  BY <1>2, SizedEmpty
<1> QED BY <1>1, <1>2, <1>3, Running, FlushingBack

LEMMA ListStep ==
  ASSUME IInv, NEW w \in Writers, List(w)
  PROVE  IInv'
<1> DEFINE t == [task[w] EXCEPT !.names = Names(data), !.pc = "remove"]
<1>1. /\ task[w].pc = "list" /\ data' = data /\ Becomes(w, t)
      /\ UNCHANGED <<configuration, gen, holder>>
  BY DEF List, At, disk, Shared, caller
<1>2. /\ DOMAIN t = DOMAIN Ended /\ t.buf = task[w].buf /\ t.then = task[w].then
      /\ t.pc = "remove" /\ t.block_size = task[w].block_size
  BY Running
<1> HIDE DEF t
<1>3. task[w].pc \in Removals /\ t.pc \in Removals /\ Returns(t.pc) = Returns(task[w].pc)
  BY <1>1, <1>2, PlacesAre, ReturnsAre, ZenonT(60)
<1> QED BY <1>1, <1>2, <1>3, Running, SameCall

LEMMA RemoveRotStep ==
  ASSUME IInv, NEW w \in Writers, RemoveRot(w)
  PROVE  IInv'
<1>1. task[w].pc = "remove"
  BY DEF RemoveRot, At
<1>2. CASE Fails(w)
  BY <1>1, <1>2, FailsStep
<1>3. CASE ~Fails(w)
  <2> DEFINE t == [task[w] EXCEPT !.names = Tail(@)]
  <2>1. /\ data' = Removed(data, task[w].names[1]) /\ Becomes(w, t)
        /\ UNCHANGED <<configuration, gen, holder>>
    BY <1>3 DEF RemoveRot
  <2>2. /\ DOMAIN t = DOMAIN Ended /\ t.buf = task[w].buf /\ t.then = task[w].then
        /\ t.pc = task[w].pc /\ t.block_size = task[w].block_size
    BY Running
  <2> HIDE DEF t
  <2>3. task[w].pc \in Removals
    BY <1>1, PlacesAre
  <2>4. FilesOk(data', LogSizes)
    BY <2>1, Running, RemovedOk
  <2> QED BY <2>1, <2>2, <2>3, <2>4, SameCall
<1> QED BY <1>2, <1>3

LEMMA RemoveDoneStep ==
  ASSUME IInv, NEW w \in Writers, RemoveDone(w)
  PROVE  IInv'
<1> DEFINE names == task[w].names
           no_use == IF Len(names) > 1 THEN names[2][2] ELSE Infinity
           t == [task[w] EXCEPT !.no_use = no_use, !.names = <<>>]
<1>1. /\ task[w].pc = "remove" /\ task[w].pc # "ended" /\ data' = data
      /\ Becomes(w, Return(t)) /\ UNCHANGED <<configuration, gen, holder>>
  BY DEF RemoveDone, At, disk, Shared, caller
<1>2. /\ DOMAIN t = DOMAIN Ended /\ t.buf = task[w].buf /\ t.then = task[w].then
      /\ t.pc = task[w].pc /\ t.block_size = task[w].block_size
  BY Running
<1> HIDE DEF t
<1>3. task[w].pc \in Removals
  BY <1>1, PlacesAre
<1> QED BY <1>1, <1>2, <1>3, Running, FlushingBack

\* The manifest: data is not touched.
LEMMA ManiSteps ==
  ASSUME IInv, NEW w \in Writers,
         Mani(w) \/ ManiFull(w) \/ ManiList(w) \/ ManiNew(w)
  PROVE  IInv'
<1>1. data' = data /\ UNCHANGED <<configuration, gen, holder>>
  BY DEF Mani, ManiFull, ManiList, ManiNew, disk, Shared, caller
<1>2. task[w].pc \in Manifests
  BY PlacesAre DEF Mani, ManiFull, ManiList, ManiNew, At
<1>3. ASSUME NEW t, Becomes(w, t), DOMAIN t = DOMAIN Ended, t.buf = task[w].buf,
             t.then = task[w].then, t.block_size = task[w].block_size, t.pc \in Manifests
      PROVE  IInv'
  <2>1. Returns(t.pc) = Returns(task[w].pc)
    BY <1>2, <1>3, ReturnsAre
  <2> QED BY <1>1, <1>2, <1>3, <2>1, Running, SameCall
<1>4. CASE Mani(w)
  <2> DEFINE n == task[w].mani_size + 1
             t == [task[w] EXCEPT !.mani_size = n,
                                  !.pc = IF n >= ManiEntries THEN "mani_full" ELSE "mani_sync"]
  <2>1. Becomes(w, t)
    BY <1>4 DEF Mani
  <2>2. /\ DOMAIN t = DOMAIN Ended /\ t.buf = task[w].buf /\ t.then = task[w].then
        /\ t.pc \in {"mani_full", "mani_sync"} /\ t.block_size = task[w].block_size
    BY Running
  <2> HIDE DEF t
  <2> QED BY <1>3, <2>1, <2>2, PlacesAre
<1>5. CASE ManiFull(w)
  <2> DEFINE t == [task[w] EXCEPT !.pc = "mani_list"]
  <2>1. Becomes(w, t)
    BY <1>5, Running DEF ManiFull, Goto, Becomes
  <2>2. /\ DOMAIN t = DOMAIN Ended /\ t.buf = task[w].buf /\ t.then = task[w].then
        /\ t.pc = "mani_list" /\ t.block_size = task[w].block_size
    BY Running
  <2> HIDE DEF t
  <2> QED BY <1>3, <2>1, <2>2, PlacesAre
<1>6. CASE ManiList(w)
  <2> DEFINE t == [task[w] EXCEPT !.names = Names(mani),
                                  !.pc = IF AtLimit(mani, 2) THEN "mani_remove" ELSE "mani_new"]
  <2>1. Becomes(w, t)
    BY <1>6 DEF ManiList
  <2>2. /\ DOMAIN t = DOMAIN Ended /\ t.buf = task[w].buf /\ t.then = task[w].then
        /\ t.pc \in {"mani_remove", "mani_new"} /\ t.block_size = task[w].block_size
    BY Running
  <2> HIDE DEF t
  <2> QED BY <1>3, <2>1, <2>2, PlacesAre
<1>7. CASE ManiNew(w)
  <2> DEFINE name == <<task[w].mani[1] + 1, 0>>
             t == [task[w] EXCEPT !.mani = name, !.mani_size = 0, !.names = <<>>, !.pc = "mani_sync"]
  <2>1. Becomes(w, t)
    BY <1>7 DEF ManiNew
  <2>2. /\ DOMAIN t = DOMAIN Ended /\ t.buf = task[w].buf /\ t.then = task[w].then
        /\ t.pc = "mani_sync" /\ t.block_size = task[w].block_size
    BY Running
  <2> HIDE DEF t
  <2> QED BY <1>3, <2>1, <2>2, PlacesAre
<1> QED BY <1>4, <1>5, <1>6, <1>7

LEMMA ManiRemoveStep ==
  ASSUME IInv, NEW w \in Writers, ManiRemove(w)
  PROVE  IInv'
<1>1. task[w].pc = "mani_remove"
  BY DEF ManiRemove, At
<1>2. CASE Fails(w)
  BY <1>1, <1>2, FailsStep
<1>3. CASE ~Fails(w)
  <2> DEFINE t == [task[w] EXCEPT !.pc = "mani_new"]
  <2>1. /\ Becomes(w, t) /\ data' = data /\ UNCHANGED <<configuration, gen, holder>>
    BY <1>3, Running DEF ManiRemove, Goto, Becomes, Shared, caller
  <2>2. /\ DOMAIN t = DOMAIN Ended /\ t.buf = task[w].buf /\ t.then = task[w].then
        /\ t.pc = "mani_new" /\ t.block_size = task[w].block_size
    BY Running
  <2> HIDE DEF t
  <2>3. /\ task[w].pc \in Manifests /\ t.pc \in Manifests
        /\ Returns(t.pc) = Returns(task[w].pc)
    BY <1>1, <2>2, PlacesAre, ReturnsAre, ZenonT(60)
  <2> QED BY <2>1, <2>2, <2>3, Running, SameCall
<1> QED BY <1>2, <1>3

LEMMA ManiSyncStep ==
  ASSUME IInv, NEW w \in Writers, ManiSync(w)
  PROVE  IInv'
<1> DEFINE t == [task[w] EXCEPT !.last_min = task[w].min]
<1>1. /\ task[w].pc = "mani_sync" /\ task[w].pc # "ended" /\ data' = data
      /\ Becomes(w, Return(t)) /\ UNCHANGED <<configuration, gen, holder>>
  BY DEF ManiSync, At, Shared, caller
<1>2. /\ DOMAIN t = DOMAIN Ended /\ t.buf = task[w].buf /\ t.then = task[w].then
      /\ t.pc = task[w].pc /\ t.block_size = task[w].block_size
  BY Running
<1> HIDE DEF t
<1>3. task[w].pc \in Manifests
  BY <1>1, PlacesAre
<1> QED BY <1>1, <1>2, <1>3, Running, FlushingBack

LEMMA FlushingStep ==
  ASSUME IInv, NEW w \in Writers, Flushing(w)
  PROVE  IInv'
  BY StartStep, TopStep, PopStep, QuietStep, LsnStep, FlushStep, WriteStep, SyncStep, RotNewStep,
     FlushedStep, ListStep, RemoveRotStep, RemoveDoneStep, ManiSteps, ManiRemoveStep, ManiSyncStep
     DEF Flushing

-----------------------------------------------------------------------------
(* The caller.                                                             *)

\* A step that leaves files, tasks and openings alone.
LEMMA CallerStep ==
  ASSUME IInv, Configured', Stays, UNCHANGED <<data, task, gen>>,
         holder' # "nothing" => config' # NoConfig,
         holder' = holder \/ holder \notin {"opening", "opening reader"}
  PROVE  IInv'
<1>1. LogSizes \subseteq LogSizes'
  BY SizesStay
<1>2. FilesOk(data', LogSizes')
  BY <1>1, FilesMove DEF IInv
<1>3. TaskInv'
  <2>1. ASSUME NEW u \in Writers PROVE TaskOk(task'[u], LogSizes')
    <3>1. TaskOk(task[u], LogSizes)
      BY DEF IInv, TaskInv
    <3> QED BY <3>1, <1>1, SizedMove DEF TaskOk
  <2> QED BY <2>1 DEF IInv, TaskInv
<1>4. OpeningInv'
  BY DEF IInv, OpeningInv
<1> QED BY <1>2, <1>3, <1>4 DEF IInv

LEMMA InstanceSteps ==
  ASSUME IInv, NewInstance \/ DropInstance
  PROVE  IInv'
<1>1. CASE NewInstance
  <2>1. /\ UNCHANGED <<data, task, gen>> /\ holder = "nothing"
        /\ holder' # "nothing" => config' # NoConfig
    BY <1>1 DEF NewInstance, disk
  <2>2. Configured' /\ Stays
    BY <1>1, LoadStep, SaveStep DEF NewInstance, IInv
  <2> QED BY <2>1, <2>2, CallerStep
<1>2. CASE DropInstance
  <2>1. /\ UNCHANGED <<data, task, gen, text, saving>> /\ holder = "instance" /\ holder' = "nothing"
        /\ config' = NoConfig
    BY <1>2 DEF DropInstance, DropConfig, disk
  <2>2. Configured' /\ Stays
    BY <2>1, KeepStep DEF IInv
  <2> QED BY <2>1, <2>2, CallerStep
<1> QED BY <1>1, <1>2

\* Steps that leave configuration and files alone.
LEMMA QuietCallerSteps ==
  ASSUME IInv,
         \/ AppendEntry \/ AdvStore \/ Stop \/ Reading
         \/ \E l \in 1 .. MaxLsn : AdvLoad(l)
  PROVE  IInv'
<1>1. /\ UNCHANGED <<data, task, gen, text, saving, config>>
      /\ \/ holder' = holder
         \/ holder \in {"writer", "reader"} /\ holder' = "instance"
  BY DEF AppendEntry, AdvStore, Stop, Reading, AdvLoad, FindRot, OpenRot, ReadNext, Finish, GetStream,
         OnlyReader, disk, caller, configuration
<1>2. Configured' /\ Stays
  BY <1>1, KeepStep DEF IInv
<1>3. holder' # "nothing" => config' # NoConfig
  BY <1>1 DEF IInv, OpeningInv
<1> QED BY ZenonT(60), SMTT(60), <1>1, <1>2, <1>3, CallerStep

\* The task of a new writer or reader is told the block size in use.
LEMMA OpensStep ==
  ASSUME IInv, OpenWriter \/ OpenReader
  PROVE  IInv'
<1> DEFINE calls == {"opening", "opening reader"}
<1>1. PICK call \in calls : Opens(call)
  BY DEF OpenWriter, OpenReader
<1> HIDE DEF calls
<1> DEFINE g == gen + 1
           t == [task[g] EXCEPT !.pc = "names", !.block_size = config.block, !.buf_size = config.bulk]
<1>2. /\ holder = "instance" /\ gen < MaxOpens /\ holder' = call /\ gen' = g /\ data' = data
      /\ UNCHANGED <<text, saving, config>>
  BY <1>1 DEF Opens, disk, configuration
<1>3. gen \in Nat /\ g \in Writers /\ g > gen /\ g = gen + 1
  <2>1. gen \in Nat /\ MaxOpens \in Nat /\ gen < MaxOpens
    BY <1>2, SizesAssumption DEF IInv, OpeningInv
  <2>2. g \in 1 .. MaxOpens /\ g > gen
    BY <2>1
  <2> QED BY <2>1, <2>2 DEF Writers
<1>4. task[g] = Ended
  <2> HIDE DEF g
  <2> QED BY <1>3 DEF IInv, OpeningInv
<1>5. task' = [task EXCEPT ![g] = t]
  BY <1>1, <1>3, Running DEF Opens
<1>6. config.block \in LogSizes /\ config # NoConfig
  BY <1>2 DEF IInv, OpeningInv, Configured, ConfigInv, LogSizes
<1>7. Configured' /\ Stays
  BY <1>2, KeepStep DEF IInv
<1>8. LogSizes \subseteq LogSizes'
  BY <1>7, SizesStay
<1>9. /\ DOMAIN t = DOMAIN Ended /\ t.pc = "names" /\ t.then = <<>> /\ t.buf = <<>>
      /\ t.block_size = config.block
  <2>1. /\ DOMAIN task[g] = DOMAIN Ended
        /\ {"pc", "then", "buf", "block_size", "buf_size"} \subseteq DOMAIN task[g]
    BY <1>3, Running
  <2>2. task[g].then = <<>> /\ task[g].buf = <<>>
    BY <1>4 DEF Ended
  <2> HIDE DEF g
  <2> QED BY <2>1, <2>2
<1> HIDE DEF t
<1>10. TaskOk(t, LogSizes)
  <2>1. "names" \in Openings
    BY DEF Openings
  <2>2. "names" \in Places /\ <<>> \in Returns("names")
    BY <2>1, ReturnsAre
  <2> QED BY <1>6, <1>9, <2>2, SizedEmpty DEF TaskOk
<1>11. TaskInv'
  <2>1. DOMAIN task = Writers /\ DOMAIN task' = Writers
    BY <1>5 DEF IInv, TaskInv
  <2>2. ASSUME NEW u \in Writers PROVE TaskOk(task'[u], LogSizes')
    <3>1. TaskOk(task'[u], LogSizes)
      BY <1>5, <1>10, <2>1 DEF IInv, TaskInv
    <3> QED BY <3>1, <1>8, SizedMove DEF TaskOk
  <2> QED BY <2>1, <2>2 DEF TaskInv
<1>12. OpeningInv'
  <2>1. DOMAIN task = Writers
    BY DEF IInv, TaskInv
  <2>2. ASSUME NEW u \in Writers
        PROVE  /\ u > gen' => task'[u] = Ended
               /\ task'[u].pc \in Openings => u = gen' /\ holder' \in calls
    <3> HIDE DEF g
    <3>1. u \in Int /\ gen \in Int /\ g \in Int
      BY <1>3 DEF Writers
    <3>2. CASE u = g
      <4>1. ~(u > g)
        BY <3>1, <3>2
      <4> QED BY <3>2, <4>1, <1>2
    <3>3. CASE u # g
      <4>1. task'[u] = task[u]
        BY <3>3, <1>5, <2>1
      <4>2. u > g => u > gen
        BY <1>3, <3>1
      <4>3. task[u].pc \notin Openings
        BY <1>2 DEF IInv, OpeningInv
      <4> QED BY <1>2, <4>1, <4>2, <4>3 DEF IInv, OpeningInv
    <3> QED BY <3>2, <3>3
  <2>3. gen' \in Nat
    BY <1>2, <1>3
  <2>4. holder' # "nothing" => config' # NoConfig
    BY <1>2, <1>6
  <2> HIDE DEF g
  <2> QED BY <2>2, <2>3, <2>4 DEF OpeningInv, calls
<1>13. FilesOk(data', LogSizes')
  BY <1>2, <1>8, FilesMove DEF IInv
<1> QED BY <1>7, <1>11, <1>12, <1>13 DEF IInv

LEMMA CrashStep ==
  ASSUME IInv, Crash
  PROVE  IInv'
<1>1. /\ data' \in Surviving(data) /\ LoseConfig /\ holder' = "nothing" /\ gen' = gen
      /\ task' = [w \in Writers |-> Ended]
  BY DEF Crash
<1>2. Configured' /\ Stays
  BY <1>1, LoseStep DEF IInv
<1>3. FilesOk(data', LogSizes')
  <2>1. FilesOk(data', LogSizes)
    BY <1>1, SurvivingOk DEF IInv
  <2> QED BY <2>1, <1>2, SizesStay, FilesMove
<1>4. TaskInv'
  BY <1>1, EndedOk DEF TaskInv
<1>5. OpeningInv'
  <2>1. Ended.pc \notin Openings
    BY EndedOk DEF Openings
  <2> QED BY <1>1, <2>1 DEF IInv, OpeningInv
<1> QED BY <1>2, <1>3, <1>4, <1>5 DEF IInv

LEMMA InitInv ==
  ASSUME Init
  PROVE  IInv
<1>1. Configured
  BY DEF Init, ConfigInit, Configured, TextInv, SavingInv, ConfigInv
<1>2. FilesOk(data, LogSizes)
  BY DEF Init, NoFiles, FilesOk
<1>3. TaskInv
  BY EndedOk DEF Init, TaskInv
<1>4. OpeningInv
  <2>1. Ended.pc \notin Openings
    BY EndedOk DEF Openings
  <2> QED BY <2>1 DEF Init, OpeningInv
<1> QED BY <1>1, <1>2, <1>3, <1>4 DEF IInv

LEMMA NextInv ==
  ASSUME IInv, [Next]_vars
  PROVE  IInv'
<1>1. ASSUME NEW w \in Writers, Fail(w) PROVE IInv'
  <2>1. task[w].pc # "ended" /\ Fails(w)
    BY <1>1 DEF Fail
  <2> QED BY <2>1, FailsStep
<1>2. CASE Next
  BY <1>1, <1>2, InstanceSteps, OpensStep, QuietCallerSteps, CrashStep, OpeningStep, FlushingStep DEF Next
<1>3. CASE UNCHANGED vars
  <2>1. UNCHANGED <<data, task, gen, holder, text, saving, config>>
    BY <1>3 DEF vars, disk, caller, configuration
  <2>2. Configured' /\ Stays
    BY <2>1, KeepStep DEF IInv
  <2> QED BY <2>1, <2>2, CallerStep DEF IInv, OpeningInv
<1> QED BY <1>2, <1>3

-----------------------------------------------------------------------------
\* The invariant: the file of the configuration, however often it was written
\* over, cut short or loaded, tells the block size of the log, and so do the
\* instance, the tasks, what they are about to write and what is on disk.
THEOREM InvHolds == Spec => []IInv
<1>1. Init => IInv
  BY InitInv
<1>2. IInv /\ [Next]_vars => IInv'
  BY NextInv
<1> QED BY <1>1, <1>2, PTL DEF Spec

\* Whatever callers ask for, with crashes while it is saved, and with tasks of
\* stopped writers at work: blocks are read with the size they were written with,
\* and a buffer is full after a number of blocks.
THEOREM ConfigFits == Spec => []BlocksFit
<1>1. ASSUME IInv PROVE BlocksFit
  <2> SUFFICES ASSUME config # NoConfig
               PROVE  /\ config.bulk % config.block = 0 /\ config.bulk >= config.block
                      /\ \A n \in DOMAIN data : \A i \in DOMAIN BlocksOf(n) :
                           BlocksOf(n)[i].size = config.block
    BY DEF BlocksFit
  <2>1. Fits(config.block, config.bulk) /\ LogSizes = {config.block}
    BY <1>1 DEF IInv, Configured, ConfigInv, LogSizes
  <2>2. ASSUME NEW n \in DOMAIN data, NEW i \in DOMAIN BlocksOf(n)
        PROVE  BlocksOf(n)[i].size = config.block
    BY <1>1, <2>1 DEF IInv, FilesOk, FileOk, Sized, BlocksOf
  <2> QED BY <2>1, <2>2 DEF Fits
<1>2. IInv => BlocksFit
  BY <1>1
<1> QED BY InvHolds, <1>2, PTL

===============================================================================
