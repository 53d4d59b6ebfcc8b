--------------------------- MODULE RpcAccess_proofs ---------------------------
(***************************************************************************)
(* Why credentials stay good, settings stay in range and appends count,    *)
(* for any settings, secrets, launches and data directories.               *)
(*                                                                         *)
(* The lines of a file are handled by their least and greatest elements,   *)
(* which exist because Nat is well founded: so the first "#" of a line and *)
(* the last line of a key can be reasoned about whatever their number.     *)
(***************************************************************************)
EXTENDS RpcAccess, SequenceTheorems, WellFoundedInduction, TLAPS

-----------------------------------------------------------------------------
(* Least and greatest elements. *)

LEMMA LeastNatural ==
  ASSUME NEW T \in SUBSET Nat, T # {}
  PROVE  \E x \in T : \A y \in T : x <= y
<1>1. IsWellFoundedOn(OpToRel(<,Nat), Nat)
  BY NatLessThanWellFounded
<1>2. PICK x \in T : \A y \in T : ~ (<<y, x>> \in OpToRel(<,Nat))
  BY <1>1, WFMin
<1>3. \A y \in T : ~(y < x)
  BY <1>2 DEF OpToRel
<1> QED BY <1>3

LEMMA MinIsLeast ==
  ASSUME NEW T \in SUBSET Nat, T # {}
  PROVE  Min(T) \in T /\ \A y \in T : Min(T) <= y
BY LeastNatural DEF Min

LEMMA MaxIsGreatest ==
  ASSUME NEW T \in SUBSET Nat, T # {}, NEW n \in Nat, \A x \in T : x <= n
  PROVE  Max(T) \in T /\ \A y \in T : y <= Max(T)
<1> DEFINE Bounds == {m \in Nat : \A y \in T : y <= m}
<1>1. PICK m \in Bounds : \A b \in Bounds : m <= b
  BY LeastNatural, n \in Bounds
<1>2. m \in T
  <2> SUFFICES ASSUME m \notin T PROVE FALSE
    OBVIOUS
  <2>1. \A y \in T : y <= m - 1
    BY <1>1
  <2>2. PICK y \in T : y \in Nat
    OBVIOUS
  <2>3. m \in Nat /\ y <= m - 1
    BY <2>1
  <2>4. m - 1 \in Nat
    BY <2>2, <2>3
  <2>5. m - 1 \in Bounds
    BY <2>1, <2>4
  <2> QED BY <1>1, <2>3, <2>5
<1>3. \E x \in T : \A y \in T : x >= y
  BY <1>1, <1>2
<1>4. Max(T) \in T /\ \A y \in T : Max(T) >= y
  BY <1>3 DEF Max
<1> QED BY <1>4

LEMMA FirstIs ==
  ASSUME NEW line \in Line, NEW t
  PROVE  /\ First(line, t) \in 0 .. Len(line)
         /\ First(line, t) = 0 <=> ~Contains(line, t)
         /\ First(line, t) # 0 => line[First(line, t)] = t
         /\ \A i \in 1 .. Len(line) : i < First(line, t) => line[i] # t
<1> DEFINE At == {i \in 1 .. Len(line) : line[i] = t}
<1>1. First(line, t) = IF At # {} THEN Min(At) ELSE 0
  BY DEF First, SelectInSeq
<1>2. At # {} => Min(At) \in At /\ \A y \in At : Min(At) <= y
  <2>1. At \in SUBSET Nat
    OBVIOUS
  <2> QED BY <2>1, MinIsLeast
<1>3. At = {} <=> ~Contains(line, t)
  BY DEF Contains
<1> HIDE DEF First
<1>4. CASE At = {}
  BY <1>1, <1>3, <1>4
<1>5. CASE At # {}
  <2>1. First(line, t) \in 1 .. Len(line) /\ line[First(line, t)] = t
    BY <1>1, <1>2, <1>5
  <2>2. \A i \in 1 .. Len(line) : line[i] = t => First(line, t) <= i
    BY <1>1, <1>2, <1>5
  <2>3. Len(line) \in Nat
    BY DEF Line
  <2> HIDE DEF At
  <2> QED BY <2>1, <2>2, <2>3, <1>3, <1>5
<1> QED BY <1>4, <1>5

-----------------------------------------------------------------------------
(* Lines. *)

Entries == [key : Line, value : Line, whole : BOOLEAN]
File    == Seq(Line) \ {<<>>}

\* A part of a line is a line.
LEMMA PartIsLine ==
  ASSUME NEW line \in Line, NEW m \in 1 .. Len(line) + 1, NEW n \in 0 .. Len(line)
  PROVE  /\ SubSeq(line, m, n) \in Line
         /\ Len(SubSeq(line, m, n)) = IF m <= n THEN n - m + 1 ELSE 0
         /\ \A i \in 1 .. n - m + 1 : SubSeq(line, m, n)[i] = line[m + i - 1]
<1>1. \A i \in m .. n : line[i] \in Tokens
  BY DEF Line
<1>2. m \in Int /\ n \in Int
  BY DEF Line
<1> QED BY <1>1, <1>2, SubSeqProperties DEF Line

LEMMA UncommentedIs ==
  ASSUME NEW line \in Line
  PROVE  LET l == Uncommented(line)
             h == First(line, "#")
         IN  /\ l \in Line
             /\ Len(l) = IF h = 0 THEN Len(line) ELSE h - 1
             /\ \A i \in 1 .. Len(l) : l[i] = line[i]
<1> DEFINE h == First(line, "#")
<1>1. h \in 0 .. Len(line) /\ (h = 0 <=> ~Contains(line, "#")) /\ Len(line) \in Nat
  BY FirstIs DEF Line
<1>2. CASE h = 0
  BY <1>1, <1>2 DEF Uncommented
<1>3. CASE h # 0
  <2>1. Uncommented(line) = SubSeq(line, 1, h - 1)
    BY <1>1, <1>3 DEF Uncommented
  <2>2. 1 \in 1 .. Len(line) + 1 /\ h - 1 \in 0 .. Len(line)
    BY <1>1, <1>3
  <2>3. /\ SubSeq(line, 1, h - 1) \in Line
        /\ Len(SubSeq(line, 1, h - 1)) = IF 1 <= h - 1 THEN (h - 1) - 1 + 1 ELSE 0
        /\ \A i \in 1 .. (h - 1) - 1 + 1 : SubSeq(line, 1, h - 1)[i] = line[1 + i - 1]
    BY <2>2, PartIsLine
  <2>4. Len(SubSeq(line, 1, h - 1)) = h - 1
    BY <1>1, <1>3, <2>3
  <2>5. \A i \in 1 .. h - 1 : SubSeq(line, 1, h - 1)[i] = line[i]
    BY <1>1, <1>3, <2>3
  <2> QED BY <2>1, <2>3, <2>4, <2>5, <1>3
<1> QED BY <1>2, <1>3

LEMMA EntryTyped ==
  ASSUME NEW line \in Line PROVE Entry(line) \in Entries
<1> DEFINE l == Uncommented(line)
           i == First(l, "=")
<1>1. l \in Line
  BY UncommentedIs
<1>2. i \in 0 .. Len(l) /\ Len(l) \in Nat
  BY <1>1, FirstIs DEF Line
<1>3. SubSeq(l, 1, i - 1) \in Line
  <2>1. CASE i = 0
    BY <1>1, <2>1, SubSeqEmpty DEF Line
  <2>2. CASE i # 0
    BY <1>1, <1>2, <2>2, PartIsLine
  <2> QED BY <2>1, <2>2
<1>4. SubSeq(l, i + 1, Len(l)) \in Line
  BY <1>1, <1>2, PartIsLine
<1> QED BY <1>3, <1>4 DEF Entry, Entries

LEMMA LineIs ==
  ASSUME NEW key \in Words, NEW value \in Line
  PROVE  LET line == LineOf(key, value)
         IN  /\ line \in Line /\ Len(line) = Len(value) + 2 /\ Len(value) \in Nat
             /\ line[1] = key /\ line[2] = "="
             /\ \A k \in 1 .. Len(value) : line[k + 2] = value[k]
<1> DEFINE line == LineOf(key, value)
<1> HIDE DEF line
<1>1. value \in Seq(Tokens) /\ <<key, "=">> \in Seq(Tokens)
  <2>1. key \in Tokens /\ "=" \in Tokens
    BY DEF Tokens
  <2> QED BY <2>1 DEF Line
<1>2. Len(<<key, "=">>) = 2 /\ <<key, "=">>[1] = key /\ <<key, "=">>[2] = "="
  OBVIOUS
<1>3. line = <<key, "=">> \o value
  BY DEF LineOf, line
<1>4. /\ line \in Seq(Tokens)
      /\ Len(line) = 2 + Len(value)
      /\ \A k \in 1 .. 2 + Len(value) :
           line[k] = IF k <= 2 THEN <<key, "=">>[k] ELSE value[k - 2]
  BY <1>1, <1>2, <1>3, ConcatProperties
<1>5. Len(value) \in Nat
  BY <1>1
<1> QED BY <1>2, <1>4, <1>5 DEF Line, line

\* The empty start of a line does not count.
LEMMA EmptyEntry == ~Entry(<<>>).whole
<1>1. <<>> \in Line /\ Len(<<>>) = 0
  BY DEF Line
<1>2. First(<<>>, "#") = 0
  BY <1>1, FirstIs
<1>3. Len(Uncommented(<<>>)) = 0
  BY <1>1, <1>2, UncommentedIs
<1>4. ~(First(Uncommented(<<>>), "=") \in 2 .. Len(Uncommented(<<>>)) - 1)
  BY <1>3
<1> QED BY <1>4, Zenon DEF Entry

\* However much of a setting's line is there, and whatever its value, it is no
\* line of another setting; if all of it is there, and no "#", it counts.
LEMMA EntryOfLine ==
  ASSUME NEW key \in Words, NEW value \in Line, NEW m \in 0 .. Len(value) + 2
  PROVE  LET e == Entry(SubSeq(LineOf(key, value), 1, m))
         IN  /\ e.whole => e.key = <<key>>
             /\ m = Len(value) + 2 /\ value # <<>> /\ ~Contains(value, "#")
                  => e.whole /\ e.value = value
<1> DEFINE line == LineOf(key, value)
           part == SubSeq(line, 1, m)
           l    == Uncommented(part)
           i    == First(l, "=")
<1>1. /\ line \in Line /\ Len(line) = Len(value) + 2 /\ Len(value) \in Nat
      /\ line[1] = key /\ line[2] = "="
      /\ \A k \in 1 .. Len(value) : line[k + 2] = value[k]
  BY LineIs
<1>2. part \in Line /\ Len(part) = m /\ \A k \in 1 .. m : part[k] = line[k]
  BY <1>1, PartIsLine
<1>3. /\ l \in Line /\ Len(l) \in 0 .. m
      /\ \A k \in 1 .. Len(l) : l[k] = line[k]
  <2> DEFINE h == First(part, "#")
  <2>1. h \in 0 .. m
    BY <1>2, FirstIs
  <2>2. /\ l \in Line
        /\ Len(l) = IF h = 0 THEN Len(part) ELSE h - 1
        /\ \A k \in 1 .. Len(l) : l[k] = part[k]
    BY <1>2, UncommentedIs
  <2>3. m \in Nat
    BY <1>1
  <2> HIDE DEF l, part, line, h
  <2>4. Len(l) \in 0 .. m
    BY <1>2, <2>1, <2>2, <2>3
  <2> QED BY <1>2, <2>2, <2>3, <2>4
<1>4. Entry(part).whole <=> i \in 2 .. Len(l) - 1
  BY DEF Entry
<1>5. ASSUME Len(l) >= 2 PROVE i = 2
  <2>1. l[1] = key /\ l[2] = "=" /\ key # "="
    BY <1>1, <1>3, <1>5, WordsAssumption
  <2>2. i \in 0 .. Len(l) /\ (i = 0 => ~Contains(l, "="))
        /\ (i # 0 => l[i] = "=") /\ \A k \in 1 .. Len(l) : k < i => l[k] # "="
    BY <1>3, FirstIs
  <2>3. Contains(l, "=")
    BY <2>1, <1>3, <1>5 DEF Contains
  <2> QED BY <2>1, <2>2, <2>3, <1>3, <1>5
<1>6. Entry(part).whole => Len(l) >= 3 /\ i = 2
  BY <1>3, <1>4, <1>5
<1>7. i = 2 /\ Len(l) >= 3 => Entry(part).key = <<key>>
  <2> SUFFICES ASSUME i = 2, Len(l) >= 3 PROVE Entry(part).key = <<key>>
    OBVIOUS
  <2>1. Entry(part).key = SubSeq(l, 1, 1)
    BY DEF Entry
  <2>2. SubSeq(l, 1, 1) \in Seq(Tokens) /\ Len(SubSeq(l, 1, 1)) = 1 /\ SubSeq(l, 1, 1)[1] = l[1]
    BY <1>3, PartIsLine DEF Line
  <2>3. l[1] = key
    BY <1>1, <1>3
  <2>4. <<key>> \in Seq(Tokens) /\ Len(<<key>>) = 1 /\ <<key>>[1] = key
    <3>1. key \in Tokens
      BY DEF Tokens
    <3> QED BY <3>1
  <2> HIDE DEF l
  <2> QED BY <2>1, <2>2, <2>3, <2>4, SeqEqual
<1>8. ASSUME m = Len(value) + 2, value # <<>>, ~Contains(value, "#")
      PROVE  Entry(part).whole /\ Entry(part).value = value
  <2>1. ~Contains(part, "#")
    <3> SUFFICES ASSUME NEW k \in 1 .. m, part[k] = "#" PROVE FALSE
      BY <1>2 DEF Contains
    <3>1. line[k] = "#" /\ k # 1 /\ k # 2
      BY <1>1, <1>2, WordsAssumption
    <3>2. k - 2 \in 1 .. Len(value)
      BY <1>1, <1>8, <3>1
    <3>3. line[(k - 2) + 2] = value[k - 2] /\ (k - 2) + 2 = k
      BY <1>1, <3>2
    <3> QED BY <1>8, <3>1, <3>2, <3>3 DEF Contains
  <2>2. Len(l) = m /\ Len(value) > 0
    <3>1. First(part, "#") = 0
      BY <1>2, <2>1, FirstIs
    <3>2. Len(l) = Len(part)
      BY <1>2, <3>1, UncommentedIs
    <3>3. Len(value) # 0
      BY <1>8, EmptySeq DEF Line
    <3> QED BY <1>1, <1>2, <3>2, <3>3
  <2>3. i = 2 /\ Entry(part).whole
    BY <1>1, <1>4, <1>5, <1>8, <2>2
  <2>4. Entry(part).value = SubSeq(l, 3, Len(l))
    BY <2>3 DEF Entry
  <2>5. /\ SubSeq(l, 3, Len(l)) \in Seq(Tokens) /\ Len(SubSeq(l, 3, Len(l))) = Len(value)
        /\ \A k \in 1 .. Len(value) : SubSeq(l, 3, Len(l))[k] = l[k + 2]
    BY <1>1, <1>3, <1>8, <2>2, PartIsLine DEF Line
  <2>6. \A k \in 1 .. Len(value) : SubSeq(l, 3, Len(l))[k] = value[k]
    BY <1>1, <1>3, <1>8, <2>2, <2>5
  <2> HIDE DEF l
  <2>7. SubSeq(l, 3, Len(l)) = value
    BY <2>5, <2>6, SeqEqual DEF Line
  <2> QED BY <2>3, <2>4, <2>7
<1> HIDE DEF line, part, l, i
<1>9. Entry(part).whole => Entry(part).key = <<key>>
  BY <1>6, <1>7
<1>10. Entry(part) = Entry(SubSeq(LineOf(key, value), 1, m))
  BY DEF part, line
<1> QED BY <1>8, <1>9, <1>10

-----------------------------------------------------------------------------
(* Files and appends. *)

\* The file after an append, cut short or not: one line of it is new, and is part
\* of the setting's line, or all of it; then the empty start of the next.
LEMMA WrittenIs ==
  ASSUME NEW file \in File, NEW line \in Line, NEW n \in 1 .. Len(line) + 2
  PROVE  LET new == Written(file, line, n)
             k   == Len(file) + 1
         IN  /\ new \in File
             /\ Len(new) \in {k, k + 1}
             /\ \A i \in 1 .. Len(file) : new[i] = file[i]
             /\ \E m \in 0 .. Len(line) :
                  /\ new[k] = SubSeq(line, 1, m)
                  /\ n = Len(line) + 2 => m = Len(line)
             /\ Len(new) = k + 1 => new[k + 1] = <<>>
<1> DEFINE k == Len(file) + 1
<1>1. /\ file \in Seq(Line) /\ Len(file) \in Nat /\ k \in Nat \ {0}
      /\ Len(line) \in Nat /\ <<>> \in Line
  BY DEF File, Line
<1>2. /\ Opened(file) \in Seq(Line) /\ Len(Opened(file)) = k
      /\ \A i \in 1 .. Len(file) : Opened(file)[i] = file[i]
      /\ Opened(file)[k] = <<>>
  BY <1>1, AppendProperties DEF Opened, NextLine
<1>3. ASSUME NEW part \in Line
      PROVE  /\ Put(Opened(file), part) \in Seq(Line) /\ Len(Put(Opened(file), part)) = k
             /\ \A i \in 1 .. Len(file) : Put(Opened(file), part)[i] = file[i]
             /\ Put(Opened(file), part)[k] = part
  <2> DEFINE o == Opened(file)
  <2>1. o[Len(o)] \o part = part /\ Len(o) \in 1 .. Len(o)
    BY <1>1, <1>2, <1>3, ConcatEmptySeq DEF Line
  <2>2. Put(o, part) = [o EXCEPT ![Len(o)] = part]
    BY <1>2, <2>1 DEF Put
  <2>3. /\ [o EXCEPT ![Len(o)] = part] \in Seq(Line)
        /\ Len([o EXCEPT ![Len(o)] = part]) = Len(o)
        /\ \A j \in 1 .. Len(o) : [o EXCEPT ![Len(o)] = part][j] = IF j = Len(o) THEN part ELSE o[j]
    BY <1>2, <2>1, ExceptSeq
  <2> HIDE DEF o
  <2> QED BY <1>1, <1>2, <2>2, <2>3 DEF o
<1>4. CASE n = Len(line) + 2
  <2> DEFINE put == Put(Opened(file), line)
  <2>1. /\ put \in Seq(Line) /\ Len(put) = k
        /\ \A i \in 1 .. Len(file) : put[i] = file[i]
        /\ put[k] = line
    BY <1>3
  <2> HIDE DEF put
  <2>2. Written(file, line, n) = Append(put, <<>>)
    BY <1>4 DEF Written, NextLine, put
  <2>3. /\ Append(put, <<>>) \in Seq(Line) /\ Len(Append(put, <<>>)) = k + 1
        /\ \A i \in 1 .. k : Append(put, <<>>)[i] = put[i]
        /\ Append(put, <<>>)[k + 1] = <<>>
        /\ Append(put, <<>>) # <<>>
    BY <1>1, <2>1, AppendProperties
  <2>4. SubSeq(line, 1, Len(line)) = line /\ Len(line) \in 0 .. Len(line)
    BY <1>1, SubSeqFull DEF Line
  <2> HIDE DEF k
  <2>5. \A i \in 1 .. Len(file) : Append(put, <<>>)[i] = file[i]
    BY <1>1, <2>1, <2>3 DEF k
  <2>6. k \in 1 .. k
    BY <1>1
  <2> QED BY <1>1, <2>1, <2>2, <2>3, <2>4, <2>5, <2>6 DEF File, k
<1>5. CASE n # Len(line) + 2
  <2> DEFINE part == SubSeq(line, 1, n - 1)
             put  == Put(Opened(file), part)
  <2>1. n - 1 \in 0 .. Len(line) /\ part \in Line
    BY <1>1, <1>5, PartIsLine
  <2> HIDE DEF part
  <2>2. /\ put \in Seq(Line) /\ Len(put) = k
        /\ \A i \in 1 .. Len(file) : put[i] = file[i]
        /\ put[k] = part
    BY <1>3, <2>1
  <2>3. Written(file, line, n) = put
    BY <1>5 DEF Written, part
  <2> HIDE DEF put
  <2>4. put # <<>>
    BY <1>1, <2>2
  <2>5. \E m \in 0 .. Len(line) : part = SubSeq(line, 1, m) /\ (n = Len(line) + 2 => m = Len(line))
    BY <1>5, <2>1 DEF part
  <2> HIDE DEF k
  <2> QED BY <1>1, <2>2, <2>3, <2>4, <2>5 DEF File, k
<1> QED BY <1>4, <1>5

\* How the lines of an appended file count.
LEMMA AppendedEntries ==
  ASSUME NEW file \in File, NEW key \in Words, NEW value \in Line,
         NEW n \in 1 .. Len(LineOf(key, value)) + 2
  PROVE  LET old == loadConfigKV(file)
             new == loadConfigKV(Written(file, LineOf(key, value), n))
             k   == Len(file) + 1
         IN  /\ DOMAIN old = 1 .. Len(file)
             /\ DOMAIN new = 1 .. k \/ DOMAIN new = 1 .. k + 1
             /\ \A i \in DOMAIN old : new[i] = old[i]
             /\ new[k].whole => new[k].key = <<key>>
             /\ n = Len(LineOf(key, value)) + 2 /\ value # <<>> /\ ~Contains(value, "#")
                  => new[k].whole /\ new[k].value = value
             /\ k + 1 \in DOMAIN new => ~new[k + 1].whole
<1> DEFINE line == LineOf(key, value)
           text == Written(file, line, n)
           old  == loadConfigKV(file)
           new  == loadConfigKV(text)
           k    == Len(file) + 1
<1>1. /\ line \in Line /\ Len(line) = Len(value) + 2 /\ Len(value) \in Nat
      /\ Len(file) \in Nat /\ DOMAIN file = 1 .. Len(file)
  BY LineIs DEF File, Line
<1>2. /\ text \in File
      /\ Len(text) \in {k, k + 1}
      /\ \A i \in 1 .. Len(file) : text[i] = file[i]
      /\ \E m \in 0 .. Len(line) :
           /\ text[k] = SubSeq(line, 1, m)
           /\ n = Len(line) + 2 => m = Len(line)
      /\ Len(text) = k + 1 => text[k + 1] = <<>>
  <2> HIDE DEF line
  <2>1. n \in 1 .. Len(line) + 2
    BY DEF line
  <2> QED BY <1>1, <2>1, WrittenIs
<1>3. DOMAIN text = 1 .. Len(text)
  BY <1>2 DEF File
<1> HIDE DEF line, text
<1>4. old = [i \in 1 .. Len(file) |-> Entry(file[i])]
      /\ new = [i \in 1 .. Len(text) |-> Entry(text[i])]
  BY <1>1, <1>3 DEF loadConfigKV
<1>5. DOMAIN old = 1 .. Len(file) /\ (DOMAIN new = 1 .. k \/ DOMAIN new = 1 .. k + 1)
  BY <1>2, <1>4
<1>6. \A i \in DOMAIN old : new[i] = old[i]
  BY <1>1, <1>2, <1>4
<1>7. new[k] = Entry(text[k])
  <2>1. k \in 1 .. Len(text)
    BY <1>1, <1>2
  <2> HIDE DEF k
  <2> QED BY <1>4, <2>1
<1>8. PICK m \in 0 .. Len(line) : text[k] = SubSeq(line, 1, m) /\ (n = Len(line) + 2 => m = Len(line))
  BY <1>2
<1>9. /\ Entry(SubSeq(line, 1, m)).whole => Entry(SubSeq(line, 1, m)).key = <<key>>
      /\ m = Len(value) + 2 /\ value # <<>> /\ ~Contains(value, "#")
          => Entry(SubSeq(line, 1, m)).whole /\ Entry(SubSeq(line, 1, m)).value = value
  <2>1. m \in 0 .. Len(value) + 2
    BY <1>1
  <2> QED BY <2>1, EntryOfLine DEF line
<1>10. k + 1 \in DOMAIN new => ~new[k + 1].whole
  <2> SUFFICES ASSUME k + 1 \in DOMAIN new PROVE ~new[k + 1].whole
    OBVIOUS
  <2>1. k + 1 \in 1 .. Len(text) /\ Len(text) = k + 1
    BY <1>1, <1>2, <1>4
  <2> HIDE DEF k
  <2>2. new[k + 1] = Entry(<<>>)
    BY <1>2, <1>4, <2>1
  <2> QED BY <2>2, EmptyEntry
<1> QED BY <1>1, <1>5, <1>6, <1>7, <1>8, <1>9, <1>10 DEF line, text

\* Of an appended file, another key has the values it had.
LEMMA OthersKept ==
  ASSUME NEW file \in File, NEW key \in Words, NEW value \in Line,
         NEW n \in 1 .. Len(LineOf(key, value)) + 2, NEW other, other # key
  PROVE  Values(loadConfigKV(Written(file, LineOf(key, value), n)), other)
           = Values(loadConfigKV(file), other)
<1> DEFINE old == loadConfigKV(file)
           new == loadConfigKV(Written(file, LineOf(key, value), n))
           k   == Len(file) + 1
<1>1. /\ DOMAIN old = 1 .. Len(file)
      /\ DOMAIN new = 1 .. k \/ DOMAIN new = 1 .. k + 1
      /\ \A i \in DOMAIN old : new[i] = old[i]
      /\ new[k].whole => new[k].key = <<key>>
      /\ k + 1 \in DOMAIN new => ~new[k + 1].whole
  BY AppendedEntries
<1>2. Len(file) \in Nat
  BY DEF File
<1> HIDE DEF old, new
<1>3. <<key>> # <<other>>
  OBVIOUS
<1>4. ASSUME NEW i \in DOMAIN new, i \notin DOMAIN old PROVE ~(new[i].whole /\ new[i].key = <<other>>)
  <2>1. i = k \/ i = k + 1
    BY <1>1, <1>2, <1>4
  <2> QED BY <1>1, <1>3, <2>1
<1>5. \A i \in DOMAIN old : i \in DOMAIN new
  BY <1>1, <1>2
<1>6. LinesOf(new, other) = LinesOf(old, other)
  BY <1>1, <1>4, <1>5 DEF LinesOf
<1>7. \A i \in LinesOf(old, other) : new[i].value = old[i].value
  BY <1>1 DEF LinesOf
<1>8. Values(new, other) = Values(old, other)
  BY <1>6, <1>7 DEF Values
<1> QED BY <1>8 DEF old, new

\* The last line of a key counts.
LEMMA ValueIsLast ==
  ASSUME NEW kv, NEW n \in Nat, DOMAIN kv = 1 .. n, NEW key, NEW i \in LinesOf(kv, key),
         \A j \in LinesOf(kv, key) : j <= i
  PROVE  Value(kv, key) = kv[i].value
<1> DEFINE lines == LinesOf(kv, key)
<1>1. lines \in SUBSET Nat /\ \A j \in lines : j <= n /\ j \in Nat
  BY DEF LinesOf
<1>2. Max(lines) \in lines /\ \A j \in lines : j <= Max(lines)
  BY <1>1, MaxIsGreatest
<1>3. Max(lines) = i
  BY <1>1, <1>2
<1>4. DOMAIN Values(kv, key) = lines /\ Values(kv, key)[i] = kv[i].value
  BY DEF Values
<1> HIDE DEF lines
<1>5. lines # {} /\ i \in lines
  BY DEF lines
<1> QED BY <1>3, <1>4, <1>5 DEF Value

LEMMA ValueTyped ==
  ASSUME NEW file \in File, NEW key
  PROVE  Value(loadConfigKV(file), key) \in Line
<1> DEFINE kv    == loadConfigKV(file)
           lines == LinesOf(kv, key)
<1>1. DOMAIN kv = 1 .. Len(file) /\ Len(file) \in Nat /\ \A i \in DOMAIN kv : kv[i].value \in Line
  <2>1. DOMAIN file = 1 .. Len(file) /\ Len(file) \in Nat /\ \A i \in DOMAIN file : file[i] \in Line
    BY DEF File
  <2>2. \A i \in DOMAIN file : Entry(file[i]).value \in Line
    BY <2>1, EntryTyped DEF Entries
  <2> QED BY <2>1, <2>2 DEF loadConfigKV
<1> HIDE DEF kv
<1>2. lines \in SUBSET Nat /\ \A j \in lines : j <= Len(file)
  BY <1>1 DEF LinesOf
<1>3. DOMAIN Values(kv, key) = lines /\ \A i \in lines : Values(kv, key)[i] = kv[i].value
  BY DEF Values
<1>4. CASE lines = {}
  BY <1>3, <1>4 DEF Value, kv, Line
<1>5. CASE lines # {}
  <2>1. Max(lines) \in lines
    BY <1>1, <1>2, <1>5, MaxIsGreatest
  <2>2. Max(lines) \in DOMAIN kv
    BY <2>1 DEF LinesOf
  <2> HIDE DEF lines
  <2>3. Value(kv, key) = kv[Max(lines)].value
    BY <1>3, <1>5, <2>1 DEF Value
  <2> QED BY <1>1, <2>2, <2>3 DEF kv
<1> QED BY <1>4, <1>5

\* A whole append of a value without "#" is what its key is worth.
LEMMA AppendedCounts ==
  ASSUME NEW file \in File, NEW key \in Words, NEW value \in Line \ {<<>>}, ~Contains(value, "#")
  PROVE  LET line == LineOf(key, value)
         IN  Value(loadConfigKV(Written(file, line, Len(line) + 2)), key) = value
<1> DEFINE line == LineOf(key, value)
           n    == Len(line) + 2
           old  == loadConfigKV(file)
           new  == loadConfigKV(Written(file, line, n))
           k    == Len(file) + 1
<1>1. n \in 1 .. Len(line) + 2 /\ value \in Line
  BY LineIs DEF Line
<1>2. /\ DOMAIN new = 1 .. k \/ DOMAIN new = 1 .. k + 1
      /\ new[k].whole => new[k].key = <<key>>
      /\ new[k].whole /\ new[k].value = value
      /\ k + 1 \in DOMAIN new => ~new[k + 1].whole
  BY <1>1, AppendedEntries
<1>3. Len(file) \in Nat /\ k \in Nat
  BY DEF File
<1> HIDE DEF new, k
<1>4. k \in LinesOf(new, key)
  BY <1>2, <1>3 DEF LinesOf, k
<1>5. \A j \in LinesOf(new, key) : j <= k
  BY <1>2, <1>3 DEF LinesOf
<1>6. \E m \in Nat : DOMAIN new = 1 .. m
  BY <1>2, <1>3
<1>7. Value(new, key) = value
  BY <1>2, <1>4, <1>5, <1>6, ValueIsLast
<1> QED BY <1>7 DEF new

-----------------------------------------------------------------------------
(* Settings. *)

LEMMA NumberIsInteger ==
  ASSUME NEW kv, NEW key PROVE NumberOf(kv, key) \in Int
BY NumeralsAssumption DEF NumberOf

LEMMA NumberInRange ==
  ASSUME NEW kv, NEW key, NEW least \in Int, NEW default \in Int
  PROVE  LET n == AtLeast(kv, key, least, default)
         IN  n \in Int /\ (n = default \/ n >= least)
<1> DEFINE number == NumberOf(kv, key)
<1>1. number \in Int
  BY NumberIsInteger
<1> HIDE DEF number
<1>2. AtLeast(kv, key, least, default) = IF number >= least THEN number ELSE default
  BY DEF AtLeast, number
<1> QED BY <1>1, <1>2

LEMMA PortInRange ==
  ASSUME NEW kv, NEW key PROVE PortOf(kv, key) \in 0 .. MaxPort
<1>1. MaxPort >= 0
  BY DEF MaxPort
<1> QED BY <1>1 DEF PortOf

\* Whatever the lines are, the settings are in their ranges.
LEMMA SettingsAreInRange == conf \in File => SettingsInRange
<1> SUFFICES ASSUME conf \in File PROVE SettingsInRange
  OBVIOUS
<1> DEFINE kv      == loadConfigKV(conf)
           mining  == LoadMiningConfig(kv)
           interop == LoadInteropReference(kv)
           peers   == LoadPeerPolicy(kv)
<1>1. \A key : Values(kv, key) = [i \in LinesOf(kv, key) |-> kv[i].value]
               /\ LinesOf(kv, key) \in SUBSET Nat
  <2>1. DOMAIN kv \in SUBSET Nat
    BY DEF loadConfigKV, File
  <2> QED BY <2>1 DEF Values, LinesOf
<1> HIDE DEF kv
<1>2. mining.Threads \in 1 .. mining.MaxThreads
  <2> DEFINE max == AtLeast(kv, "mining_max_threads", 1, NumCPU)
             num == AtLeast(kv, "mining_threads", 1, 1)
  <2>1. max \in Int /\ max >= 1 /\ num \in Int /\ num >= 1
    <3>1. max \in Int /\ (max = NumCPU \/ max >= 1)
      BY NumberInRange, NumCPUAssumption
    <3>2. num \in Int /\ (num = 1 \/ num >= 1)
      BY NumberInRange
    <3> HIDE DEF max, num
    <3> QED BY <3>1, <3>2, NumCPUAssumption
  <2>2. mining.MaxThreads = max /\ mining.Threads = Capped(num, max)
    BY DEF LoadMiningConfig
  <2> HIDE DEF max, num, mining
  <2> QED BY <2>1, <2>2 DEF Capped
<1>3. mining.StopAfterBlocks >= 0
  <2> DEFINE stop == AtLeast(kv, "mining_stop_after_blocks", 1, 0)
  <2>1. stop \in Int /\ (stop = 0 \/ stop >= 1)
    BY NumberInRange
  <2>2. mining.StopAfterBlocks = stop
    BY DEF LoadMiningConfig
  <2> HIDE DEF stop, mining
  <2> QED BY <2>1, <2>2
<1>4. LoadLogConfig(kv).P2PHeartbeatSeconds >= 10
  <2>1. LoadLogConfig(kv).P2PHeartbeatSeconds = AtLeast(kv, "p2p_heartbeat_seconds", 10, 60)
    BY DEF LoadLogConfig
  <2> DEFINE seconds == AtLeast(kv, "p2p_heartbeat_seconds", 10, 60)
  <2>2. seconds \in Int /\ (seconds = 60 \/ seconds >= 10)
    BY NumberInRange
  <2> HIDE DEF seconds
  <2>3. LoadLogConfig(kv).P2PHeartbeatSeconds = seconds
    BY <2>1 DEF seconds
  <2> QED BY <2>2, <2>3
<1>5. {interop.P2PPort, interop.RPCPort} \subseteq 0 .. MaxPort
  <2>1. /\ interop.P2PPort = PortOf(kv, "interop_p2p_port")
        /\ interop.RPCPort = PortOf(kv, "interop_rpc_port")
    BY DEF LoadInteropReference
  <2>2. /\ PortOf(kv, "interop_p2p_port") \in 0 .. MaxPort
        /\ PortOf(kv, "interop_rpc_port") \in 0 .. MaxPort
    BY PortInRange
  <2> HIDE DEF interop
  <2> QED BY <2>1, <2>2
<1>6. LoadRPCBind(kv).Host # <<>>
  BY DEF LoadRPCBind, TextOf
<1>7. peers.NoSeedNode => ~peers.SeedPeers
  BY DEF LoadPeerPolicy
<1>8. peers.MaxInboundPeers >= 1
  <2>1. peers.MaxInboundPeers = AtLeast(kv, "max_inbound_peers", 1, 64)
    BY DEF LoadPeerPolicy
  <2> DEFINE most == AtLeast(kv, "max_inbound_peers", 1, 64)
  <2>2. most \in Int /\ (most = 64 \/ most >= 1)
    BY NumberInRange
  <2> HIDE DEF most, peers
  <2>3. peers.MaxInboundPeers = most
    BY <2>1 DEF most
  <2> QED BY <2>2, <2>3
<1>9. IsInjective(LoadAddNodes(kv))
  <2> DEFINE vs    == Values(kv, "addnode")
             firsts == {l \in DOMAIN vs : \A k \in DOMAIN vs : k < l => vs[k] # vs[l]}
  <2>1. LoadAddNodes(kv) = [i \in firsts |-> vs[i]]
    BY DEF LoadAddNodes
  <2>2. DOMAIN vs \in SUBSET Nat
    BY <1>1
  <2>3. ASSUME NEW a \in firsts, NEW b \in firsts, vs[a] = vs[b] PROVE a = b
    BY <2>2, <2>3
  <2> HIDE DEF firsts, vs
  <2> QED BY <2>1, <2>3 DEF IsInjective
<1> QED BY <1>2, <1>3, <1>4, <1>5, <1>6, <1>7, <1>8, <1>9 DEF SettingsInRange, kv

-----------------------------------------------------------------------------
(* The cookie. *)

\* The cookie of a daemon that is up reads as the daemon reads it.
CookieMatches ==
  daemon = "up" /\ byCookie /\ cookie # Missing
    => Usable(cookie) /\ auth = AuthOf(cookie)

\* A secret is drawn before the cookie is written.
SecretDrawn ==
  /\ secrets \in 0 .. Len(Secrets)
  /\ daemon = "writing" => secrets # 0

CookieInv == CookieMatches /\ SecretDrawn

-----------------------------------------------------------------------------
\* What EnsureRPCCookieForDataDir writes it can use.
LEMMA WrittenIsUsable ==
  ASSUME NEW n \in 1 .. Len(Secrets), CookieOf(n) # Missing
  PROVE  Usable(CookieOf(n))
<1>1. Secrets[n] # <<>>
  BY AccessAssumption
<1>2. CookieOf(n)[1] = <<"__cookie__">> /\ CookieOf(n)[2] = Secrets[n] /\ Len(CookieOf(n)) = 2
  BY DEF CookieOf
<1>3. <<"__cookie__">> # <<>>
  OBVIOUS
<1> QED BY <1>1, <1>2, <1>3 DEF Usable

\* A cookie that can be used is read as it is, and its credentials are sent.
LEMMA UsableIsSent ==
  ASSUME NEW c, Usable(c)
  PROVE  Header(LoadRPCCookie(c)) = AuthOf(c)
BY DEF Usable, Header, LoadRPCCookie, AuthOf, Enabled

-----------------------------------------------------------------------------
LEMMA CookieInit == Init => CookieInv
<1> SUFFICES ASSUME daemon = "down", secrets = 0 PROVE CookieInv
  BY DEF Init
<1>1. Len(Secrets) \in Nat
  BY AccessAssumption
<1> QED BY <1>1 DEF CookieInv, CookieMatches, SecretDrawn

LEMMA CookieKept ==
  ASSUME CookieInv, [Next]_vars
  PROVE  CookieInv'
<1> USE DEF CookieInv, CookieMatches, SecretDrawn
<1>1. CASE Operator
  <2>1. CASE \E s \in Settings : \E n \in 1 .. Complete(s) : AppendConfigLine(s, n)
    BY <2>1 DEF AppendConfigLine, node, Usable, AuthOf
  <2>2. CASE RemoveCookie
    BY <2>2 DEF RemoveCookie, node
  <2> QED BY <1>1, <2>1, <2>2 DEF Operator
<1>2. CASE Daemon
  <2>1. CASE StartWithConf
    BY <2>1 DEF StartWithConf, Serve
  <2>2. CASE StartWithCookie
    BY <2>2 DEF StartWithCookie, Serve, Usable
  <2>3. CASE BeginCookie
    BY <2>3, AccessAssumption DEF BeginCookie
  <2>4. CASE EndCookie
    <3>1. secrets \in 1 .. Len(Secrets)
      BY <2>4, AccessAssumption DEF EndCookie
    <3>2. cookie' # Missing => Usable(cookie')
      BY <2>4, <3>1, WrittenIsUsable DEF EndCookie
    <3> QED BY <2>4, <3>2 DEF EndCookie, Serve
  <2>5. CASE CrashInCookie
    BY <2>5 DEF CrashInCookie
  <2>6. CASE StopOrCrash
    BY <2>6 DEF StopOrCrash
  <2> QED BY <1>2, <2>1, <2>2, <2>3, <2>4, <2>5, <2>6 DEF Daemon
<1>3. CASE Miner
  <2>1. UNCHANGED <<cookie, node>>
    BY <1>3 DEF Miner, MakeClient, Call, PressMode, PressThreads, PressRestart,
                Restart
  <2> QED BY <2>1 DEF node, Usable, AuthOf
<1>4. CASE UNCHANGED vars
  BY <1>4 DEF vars, node, Usable, AuthOf
<1> QED BY <1>1, <1>2, <1>3, <1>4 DEF Next

THEOREM CookieIsTheDaemons == Spec => []CookieInv
<1> QED BY CookieInit, CookieKept, PTL DEF Spec

-----------------------------------------------------------------------------
LEMMA FreshStep ==
  ASSUME CookieInv, MakeClient, daemon = "up", byCookie, cookie # Missing,
         SameDir, NoneGiven
  PROVE  Accepted'
<1>1. Usable(cookie) /\ auth = AuthOf(cookie)
  BY DEF CookieInv, CookieMatches
<1>2. Credentials = LoadRPCCookie(cookie)
  BY DEF Credentials
<1>3. client' = auth
  BY <1>1, <1>2, UsableIsSent DEF MakeClient
<1> QED BY <1>3 DEF MakeClient, Accepted, node

\* A client made without given credentials, while a daemon is up whose cookie is
\* there, is accepted: for any settings, secrets, directories and launches
\* (newRPCClient, EnsureRPCCookieForDataDir, LoadRPCCookieForDataDir).
THEOREM FreshClientsAreAccepted == Spec => FreshClientAccepted
<1>1. CookieInv => [ (MakeClient /\ daemon = "up" /\ byCookie /\ cookie # Missing
                        /\ SameDir /\ NoneGiven) => Accepted' ]_vars
  BY FreshStep
<1> QED BY <1>1, CookieIsTheDaemons, PTL DEF FreshClientAccepted

-----------------------------------------------------------------------------
(* Types. *)

\* The files, the daemon and the miner's configuration.
MinerTyped ==
  /\ miner.RPCUser \in Line /\ miner.RPCPass \in Line
  /\ miner.Threads >= 1
  /\ miner.Mode \in Modes

StateTyped ==
  /\ conf \in File
  /\ cookie = Missing \/ cookie \in Seq(Line)
  /\ daemon \in {"down", "writing", "up"} /\ byCookie \in BOOLEAN
  /\ auth \in Pairs /\ (daemon = "up" => Enabled(auth))
  /\ edits \in 0 .. MaxEdits
  /\ mode \in Modes
  /\ client = NoClient \/ client \in Pairs
  /\ proven \in BOOLEAN

\* main compares the numbers as the flags give them, of 64 bits, and cuts both
\* to 32 bits afterwards (main.go:149-152, 176-177): the configuration keeps the
\* order only of numbers that fit.
TotalsFit == \A l \in Launches : Parse(l.flags, l.file).total_miners < Word

LEMMA NoAuthTyped == NoAuth \in Pairs
BY DEF NoAuth, Pairs, Line

LEMMA AuthTyped ==
  ASSUME NEW c \in Seq(Line), Len(c) = 2
  PROVE  AuthOf(c) \in Pairs
<1>1. c[1] \in Line /\ c[2] \in Line
  OBVIOUS
<1> QED BY <1>1 DEF AuthOf, Pairs

LEMMA CookieTyped ==
  ASSUME NEW n \in 1 .. Len(Secrets)
  PROVE  /\ CookieOf(n) \in Seq(Line) /\ Len(CookieOf(n)) = 2
         /\ Enabled(AuthOf(CookieOf(n)))
         /\ TornCookies(n) \subseteq Seq(Line)
<1>1. Secrets[n] \in Seq(Words) \ {<<>>}
  BY AccessAssumption
<1>2. /\ <<>> \in Line /\ <<"__cookie__">> \in Line
      /\ Secrets[n] \in Line /\ <<Head(Secrets[n])>> \in Line
  BY <1>1, AccessAssumption DEF Line, Tokens
<1>3. <<"__cookie__">> # <<>>
  OBVIOUS
<1>4. CookieOf(n) = << <<"__cookie__">>, Secrets[n] >>
  BY DEF CookieOf
<1>5. TornCookies(n) \subseteq Seq(Line)
  BY <1>2 DEF TornCookies
<1>6. AuthOf(CookieOf(n)) = [User |-> <<"__cookie__">>, Password |-> Secrets[n]]
  BY <1>4 DEF AuthOf
<1>7. Enabled(AuthOf(CookieOf(n)))
  BY <1>1, <1>3, <1>6 DEF Enabled
<1> QED BY <1>2, <1>4, <1>5, <1>7

LEMMA ConfAuthTyped == conf \in File => ConfAuth \in Pairs
BY ValueTyped DEF ConfAuth, LoadRPCAuth, Pairs

\* What an append leaves is a file.
LEMMA AppendTyped ==
  ASSUME conf \in File, NEW s \in Settings, NEW n \in 1 .. Complete(s),
         AppendConfigLine(s, n)
  PROVE  conf' \in File
<1>1. LineOf(s.key, s.value) \in Line
  BY LineIs, SettingsAssumption
<1> QED BY <1>1, WrittenIs DEF AppendConfigLine, Complete

LEMMA CutFits ==
  ASSUME NEW x \in Nat, x < Word PROVE x % Word = x
BY WordAssumption

LEMMA ConfigTyped ==
  ASSUME NEW l \in Launches,
         LET c == Parse(l.flags, l.file) IN Acceptable(c) /\ miner = AppConfig(c)
  PROVE  MinerTyped /\ (TotalsFit => miner.MinerID < miner.TotalMiners)
<1> DEFINE c == Parse(l.flags, l.file)
<1>1. /\ c.threads \in Int /\ c.rpcuser \in Line /\ c.rpcpass \in Line
      /\ c.miner_id \in Nat /\ c.total_miners \in Nat
      /\ c.miner_id < c.total_miners
      /\ TotalsFit => c.total_miners < Word
  BY LaunchAssumption DEF Acceptable, TotalsFit
<1>2. miner = AppConfig(c)
  OBVIOUS
<1> HIDE DEF c
<1>3. /\ AppConfig(c).MinerID = c.miner_id % Word
      /\ AppConfig(c).TotalMiners = c.total_miners % Word
      /\ AppConfig(c).Threads = IF c.threads < 1 THEN 1 ELSE c.threads
      /\ AppConfig(c).RPCUser = c.rpcuser
      /\ AppConfig(c).RPCPass = c.rpcpass
      /\ AppConfig(c).Mode = IF c.rpc = "" THEN "bench" ELSE "rpc"
  BY Zenon DEF AppConfig
<1>4. TotalsFit => miner.MinerID < miner.TotalMiners
  <2> SUFFICES ASSUME TotalsFit PROVE miner.MinerID < miner.TotalMiners
    OBVIOUS
  <2>1. c.total_miners < Word /\ c.miner_id < Word
    BY <1>1, WordAssumption
  <2>2. c.miner_id % Word = c.miner_id /\ c.total_miners % Word = c.total_miners
    BY <1>1, <2>1, CutFits
  <2> QED BY <1>1, <1>2, <1>3, <2>2
<1>5. miner.Threads >= 1
  <2>1. CASE c.threads < 1
    <3>1. miner.Threads = 1
      BY <2>1, <1>2, <1>3, Zenon
    <3> QED BY <3>1
  <2>2. CASE ~(c.threads < 1)
    <3>1. miner.Threads = c.threads
      BY <2>2, <1>2, <1>3, Zenon
    <3> QED BY <2>2, <3>1, <1>1
  <2> QED BY <2>1, <2>2
<1>6. miner.RPCUser \in Line /\ miner.RPCPass \in Line /\ miner.Mode \in Modes
  BY <1>1, <1>2, <1>3 DEF Modes
<1> QED BY <1>4, <1>5, <1>6 DEF MinerTyped

LEMMA TypedInit ==
  ASSUME Init
  PROVE  /\ StateTyped /\ MinerTyped
         /\ TotalsFit => miner.MinerID < miner.TotalMiners
<1>1. PICK l \in Launches :
        LET c == Parse(l.flags, l.file) IN Acceptable(c) /\ miner = AppConfig(c)
  BY DEF Init
<1>2. MinerTyped /\ (TotalsFit => miner.MinerID < miner.TotalMiners)
  BY <1>1, ConfigTyped
<1>3. conf \in File
  BY AccessAssumption DEF Init, File
<1>4. 0 \in 0 .. MaxEdits
  BY AccessAssumption
<1>5. mode \in Modes
  BY <1>2 DEF Init, MinerTyped
<1>6. StateTyped
  BY <1>3, <1>4, <1>5, NoAuthTyped DEF StateTyped, Init
<1> QED BY <1>2, <1>6

\* The credentials a client is made with.
LEMMA ClientTyped ==
  ASSUME cookie = Missing \/ cookie \in Seq(Line), MinerTyped
  PROVE  Header(Credentials) \in Pairs
<1>1. [User |-> miner.RPCUser, Password |-> miner.RPCPass] \in Pairs
  BY DEF MinerTyped, Pairs
<1>2. ASSUME NEW c, c = Missing \/ c \in Seq(Line) PROVE LoadRPCCookie(c) \in Pairs
  BY <1>2, NoAuthTyped, AuthTyped DEF LoadRPCCookie
<1>3. Credentials \in Pairs
  BY <1>1, <1>2 DEF Credentials
<1> QED BY <1>3, NoAuthTyped DEF Header

LEMMA TypedKept ==
  ASSUME StateTyped, MinerTyped, CookieInv, [Next]_vars
  PROVE  StateTyped' /\ MinerTyped'
<1>1. MinerTyped'
  BY DEF MinerTyped, Next, Operator, AppendConfigLine, RemoveCookie, Daemon, StartWithConf,
         StartWithCookie, BeginCookie, EndCookie, CrashInCookie, StopOrCrash,
         Miner, MakeClient, Call, PressMode, PressThreads, PressRestart, Restart, vars
<1>2. CASE Operator
  <2>1. CASE \E s \in Settings : \E n \in 1 .. Complete(s) : AppendConfigLine(s, n)
    <3>0. PICK s \in Settings : \E n \in 1 .. Complete(s) : AppendConfigLine(s, n)
      BY <2>1
    <3>1. PICK n \in 1 .. Complete(s) : AppendConfigLine(s, n)
      BY <3>0
    <3>2. conf' \in File
      BY <3>1, AppendTyped DEF StateTyped
    <3>3. edits' \in 0 .. MaxEdits
      BY <3>1, AccessAssumption DEF AppendConfigLine, StateTyped
    <3>4. proven' \in BOOLEAN
      BY <3>1 DEF AppendConfigLine
    <3> QED BY <3>1, <3>2, <3>3, <3>4, <1>1 DEF AppendConfigLine, StateTyped, node, loop
  <2>2. CASE RemoveCookie
    BY <2>2, <1>1 DEF RemoveCookie, StateTyped, node, loop
  <2> QED BY <1>2, <2>1, <2>2 DEF Operator
<1>3. CASE Daemon
  <2>1. CASE StartWithConf
    BY <2>1, <1>1, ConfAuthTyped DEF StartWithConf, Serve, StateTyped, loop
  <2>2. CASE StartWithCookie
    <3>1. AuthOf(cookie) \in Pairs /\ Enabled(AuthOf(cookie))
      BY <2>2, AuthTyped DEF StartWithCookie, StateTyped, Usable, AuthOf, Enabled
    <3> QED BY <2>2, <3>1, <1>1 DEF StartWithCookie, Serve, StateTyped, loop
  <2>3. CASE BeginCookie
    <3>1. << <<>> >> \in Seq(Line)
      BY DEF Line
    <3> QED BY <2>3, <3>1, <1>1 DEF BeginCookie, StateTyped, loop
  <2>4. CASE EndCookie
    <3>1. secrets \in 1 .. Len(Secrets)
      BY <2>4, AccessAssumption DEF EndCookie, CookieInv, SecretDrawn
    <3>2. AuthOf(CookieOf(secrets)) \in Pairs
      BY <3>1, CookieTyped, AuthTyped
    <3> QED BY <2>4, <3>1, <3>2, <1>1, CookieTyped DEF EndCookie, Serve, StateTyped, loop
  <2>5. CASE CrashInCookie
    <3>1. secrets \in 1 .. Len(Secrets)
      BY <2>5, AccessAssumption DEF CrashInCookie, CookieInv, SecretDrawn
    <3> QED BY <2>5, <3>1, <1>1, CookieTyped DEF CrashInCookie, StateTyped, loop
  <2>6. CASE StopOrCrash
    BY <2>6, <1>1 DEF StopOrCrash, StateTyped, loop
  <2> QED BY <1>3, <2>1, <2>2, <2>3, <2>4, <2>5, <2>6 DEF Daemon
<1>4. CASE Miner
  <2>1. CASE MakeClient
    BY <2>1, <1>1, ClientTyped DEF MakeClient, StateTyped, node
  <2>2. CASE Call
    <3>1. Lasting \in BOOLEAN
      BY DEF Lasting, NeedsCookie
    <3> QED BY <2>2, <3>1, <1>1 DEF Call, StateTyped, node, loop
  <2>3. ASSUME NEW newMode \in Modes, Restart(newMode) PROVE StateTyped'
    BY <2>3, <1>1 DEF Restart, StateTyped, node
  <2>4. mode \in Modes /\ NextMode[mode] \in Modes
    BY DEF StateTyped, NextMode, Modes
  <2>5. PressMode \/ PressThreads \/ PressRestart => StateTyped'
    BY <2>3, <2>4 DEF PressMode, PressThreads, PressRestart
  <2> QED BY <1>1, <1>4, <2>1, <2>2, <2>5 DEF Miner
<1>5. CASE UNCHANGED vars
  BY <1>5, <1>1 DEF vars, node, loop, StateTyped
<1> QED BY <1>1, <1>2, <1>3, <1>4, <1>5 DEF Next

\* The miner's configuration never changes.
LEMMA MinerKept == [Next]_vars => UNCHANGED miner
BY DEF Next, Operator, AppendConfigLine, RemoveCookie, Daemon, StartWithConf,
       StartWithCookie, BeginCookie, EndCookie, CrashInCookie, StopOrCrash,
       Miner, MakeClient, Call, PressMode, PressThreads, PressRestart, Restart, vars

LEMMA StateTypes == Spec => [](StateTyped /\ MinerTyped)
<1> DEFINE Typed == StateTyped /\ MinerTyped
<1>1. Init => Typed
  BY TypedInit
<1>2. Typed /\ CookieInv /\ [Next]_vars => Typed'
  BY TypedKept
<1> HIDE DEF Typed
<1>3. Spec => []Typed
  BY <1>1, <1>2, CookieIsTheDaemons, PTL DEF Spec
<1> QED BY <1>3 DEF Typed

\* Everything has its type and every setting is in its range, whatever is
\* written and cut short, for any settings, secrets and launches whose number of
\* miners fits in 32 bits.
THEOREM Types == TotalsFit => (Spec => []TypeOK)
<1> SUFFICES ASSUME TotalsFit PROVE Spec => []TypeOK
  OBVIOUS
<1> DEFINE Index == miner.MinerID < miner.TotalMiners
<1>1. Init => Index
  BY TypedInit
<1>2. Index /\ [Next]_vars => Index'
  BY MinerKept
<1>3. StateTyped /\ MinerTyped /\ CookieInv /\ Index => TypeOK
  <2>1. StateTyped => conf \in File
    BY DEF StateTyped
  <2>2. CookieInv => secrets \in 0 .. Len(Secrets)
    BY DEF CookieInv, SecretDrawn
  <2> QED BY <2>1, <2>2, SettingsAreInRange DEF TypeOK, StateTyped, MinerTyped, File
<1> HIDE DEF Index
<1> QED BY <1>1, <1>2, <1>3, StateTypes, CookieIsTheDaemons, PTL DEF Spec

-----------------------------------------------------------------------------
\* A client that has been accepted has what the daemon finds at its next start.
KeepsAccess ==
  proven =>
    /\ daemon # "writing"
    /\ client # NoClient
    /\ daemon = "up" => client = auth
    /\ \/ Enabled(ConfAuth) /\ client = ConfAuth
       \/ NeedsCookie /\ Usable(cookie) /\ client = AuthOf(cookie)

LEMMA AccessKept ==
  ASSUME StateTyped, CookieInv, KeepsAccess, [Next]_vars
  PROVE  KeepsAccess'
<1> SUFFICES ASSUME proven' PROVE KeepsAccess'
  BY DEF KeepsAccess
<1>0. ~Enabled(NoAuth)
  BY DEF Enabled, NoAuth
<1>1. CASE Operator
  <2>1. CASE \E s \in Settings : \E n \in 1 .. Complete(s) : AppendConfigLine(s, n)
    <3>0. PICK s \in Settings : \E n \in 1 .. Complete(s) : AppendConfigLine(s, n)
      BY <2>1
    <3>1. PICK n \in 1 .. Complete(s) : AppendConfigLine(s, n)
      BY <3>0
    <3>2. proven /\ s.key # "rpcuser" /\ s.key # "rpcpassword"
      BY <3>1 DEF AppendConfigLine
    <3>3. ASSUME NEW other, other # s.key
          PROVE  Values(loadConfigKV(conf'), other) = Values(loadConfigKV(conf), other)
      <4>1. s.key \in Words /\ s.value \in Line
        BY SettingsAssumption
      <4>2. n \in 1 .. Len(LineOf(s.key, s.value)) + 2
        BY DEF Complete
      <4> QED BY <3>1, <3>3, <4>1, <4>2, OthersKept DEF AppendConfigLine, StateTyped
    <3>4. ConfAuth' = ConfAuth
      BY <3>2, <3>3 DEF ConfAuth, LoadRPCAuth, Value
    <3> QED BY <3>1, <3>2, <3>4 DEF AppendConfigLine, KeepsAccess, node, loop, NeedsCookie
  <2>2. CASE RemoveCookie
    BY <2>2 DEF RemoveCookie
  <2> QED BY <1>1, <2>1, <2>2 DEF Operator
<1>2. CASE Daemon
  <2>1. proven /\ UNCHANGED <<conf, client>> /\ ConfAuth' = ConfAuth
    BY <1>2 DEF Daemon, StartWithConf, StartWithCookie, BeginCookie, EndCookie,
                CrashInCookie, StopOrCrash, loop, ConfAuth
  <2>2. daemon # "writing"
    BY <2>1 DEF KeepsAccess
  <2>3. CASE StartWithConf
    BY <1>0, <2>1, <2>3 DEF StartWithConf, Serve, KeepsAccess, NeedsCookie
  <2>4. CASE StartWithCookie
    BY <1>0, <2>1, <2>4 DEF StartWithCookie, Serve, KeepsAccess, NeedsCookie
  <2>5. CASE BeginCookie
    BY <1>0, <2>1, <2>5 DEF BeginCookie, KeepsAccess, NeedsCookie
  <2>6. CASE StopOrCrash
    BY <2>1, <2>6 DEF StopOrCrash, KeepsAccess, NeedsCookie
  <2> QED BY <1>2, <2>2, <2>3, <2>4, <2>5, <2>6 DEF Daemon, EndCookie, CrashInCookie
<1>3. CASE Miner
  <2>1. CASE MakeClient
    BY <2>1 DEF MakeClient, KeepsAccess
  <2>2. CASE Call
    <3>1. Accepted /\ Lasting
      BY <2>2 DEF Call
    <3>2. client # NoClient /\ Enabled(client)
      BY <3>1, AccessAssumption DEF Accepted, StateTyped
    <3>3. \/ Enabled(ConfAuth) /\ client = ConfAuth
          \/ NeedsCookie /\ Usable(cookie) /\ client = AuthOf(cookie)
      BY <3>1, <3>2 DEF Lasting, Accepted, CookieInv, CookieMatches
    <3>4. UNCHANGED <<conf, cookie, daemon, auth, client>>
      BY <2>2 DEF Call, node, loop
    <3>5. ConfAuth' = ConfAuth
      BY <3>4 DEF ConfAuth
    <3> QED BY <3>1, <3>2, <3>3, <3>4, <3>5 DEF KeepsAccess, Accepted, NeedsCookie
  <2>3. CASE PressMode \/ PressThreads \/ PressRestart
    BY <2>3 DEF PressMode, PressThreads, PressRestart, Restart
  <2> QED BY <1>3, <2>1, <2>2, <2>3 DEF Miner
<1>4. CASE UNCHANGED vars
  <2>1. UNCHANGED <<conf, cookie, daemon, auth, client, proven>>
    BY <1>4 DEF vars, node, loop
  <2>2. ConfAuth' = ConfAuth
    BY <2>1 DEF ConfAuth
  <2> QED BY <2>1, <2>2 DEF KeepsAccess, NeedsCookie
<1> QED BY <1>1, <1>2, <1>3, <1>4 DEF Next
\* A daemon that has accepted the client accepts it after every crash and
\* restart, unless credentials are appended or the cookie is removed: for any
\* first file, any settings, any secrets and any number of restarts
\* (EnsureRPCCookieForDataDir, AppendConfigLine, newRPCClient).
THEOREM AuthorisedClientsStay == Spec => []AuthorisedStays
<1>1. Init => KeepsAccess
  BY DEF KeepsAccess, Init
<1>2. StateTyped /\ CookieInv /\ KeepsAccess /\ [Next]_vars => KeepsAccess'
  BY AccessKept
<1>3. KeepsAccess => AuthorisedStays
  BY DEF KeepsAccess, AuthorisedStays, Accepted
<1> QED BY <1>1, <1>2, <1>3, StateTypes, CookieIsTheDaemons, PTL DEF Spec

-----------------------------------------------------------------------------
LEMMA AppendCounts ==
  ASSUME conf \in File, NEW s \in Settings, AppendConfigLine(s, Complete(s)),
         ~Contains(s.value, "#")
  PROVE  LET old == loadConfigKV(conf)
             new == loadConfigKV(conf')
         IN  /\ Value(new, s.key) = s.value
             /\ \A t \in Settings :
                  t.key # s.key => Values(new, t.key) = Values(old, t.key)
<1> DEFINE line == LineOf(s.key, s.value)
<1>1. s.key \in Words /\ s.value \in Line \ {<<>>}
  BY SettingsAssumption
<1>2. conf' = Written(conf, line, Len(line) + 2)
  BY DEF AppendConfigLine, Complete
<1>3. Value(loadConfigKV(conf'), s.key) = s.value
  BY <1>1, <1>2, AppendedCounts
<1>4. Len(line) + 2 \in 1 .. Len(line) + 2
  BY <1>1, LineIs
<1>5. ASSUME NEW t \in Settings, t.key # s.key
      PROVE  Values(loadConfigKV(conf'), t.key) = Values(loadConfigKV(conf), t.key)
  BY <1>1, <1>2, <1>4, <1>5, OthersKept
<1> QED BY <1>3, <1>5

\* A complete append of a value without "#" is read back, and changes no other
\* setting, whatever the file is like: any lines, any cut-off last one
\* (AppendConfigLine, loadConfigKV).
THEOREM AppendsTakeEffect == Spec => AppendTakesEffect
<1>1. StateTyped
        => [ \A s \in Settings :
               AppendConfigLine(s, Complete(s)) /\ ~Contains(s.value, "#")
               => LET old == loadConfigKV(conf)
                      new == loadConfigKV(conf')
                  IN  /\ Value(new, s.key) = s.value
                      /\ \A t \in Settings :
                           t.key # s.key => Values(new, t.key) = Values(old, t.key) ]_vars
  BY AppendCounts DEF StateTyped
<1> QED BY <1>1, StateTypes, PTL DEF AppendTakesEffect
=============================================================================
