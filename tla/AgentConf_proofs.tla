-------------------------- MODULE AgentConf_proofs --------------------------
(***************************************************************************)
(* Proofs about the configuration file of an agent, for files of any       *)
(* length and any set of modes: an update that fails or dies half way      *)
(* harms nothing, and one that is acknowledged lasts.                      *)
(***************************************************************************)
EXTENDS AgentConf, SequenceTheorems, WellFoundedInduction, TLAPS

-----------------------------------------------------------------------------
(* The invariant.                                                          *)

\* A line as update_conf writes it.
Rewritten(l) == IF IsDirective(l) THEN Handle(value) ELSE l

\* What update_conf has written so far, and what it has yet to read, are the
\* lines of the file, with the new value on every line of the directive ...
Rewriting ==
  LET L == Lines(conf)
  IN /\ Len(rest) <= Len(L)
     /\ \A i \in 1 .. Len(rest) : rest[i] = L[Len(L) - Len(rest) + i]
     /\ Len(tmp) = Len(L) - Len(rest)
     /\ \A i \in 1 .. Len(tmp) : tmp[i] = Rewritten(L[i])
     /\ found <=> \E i \in 1 .. Len(tmp) : IsDirective(L[i])

\* ... or, when there was none, with the directive added at the end.
Adding ==
  /\ \A i \in 1 .. Len(Lines(conf)) : ~IsDirective(Lines(conf)[i])
  /\ rest = <<>> /\ found /\ tmp = Added(Lines(conf), Handle(value))

Copied ==
  /\ Rewriting \/ Adding
  /\ found => value \in Mode /\ mem = value

Writing ==
  /\ upc = "mkstemp" => rest = Lines(conf) /\ ~found
  /\ upc \in {"copy", "rename"} => Copied
  /\ upc = "open" => ~found
  /\ upc = "rename" => rest = <<>> /\ found

\* The memory is that of the file until the new value is set; an agent with a
\* mode has a file it can be loaded from.
Memory ==
  /\ upc # "idle" => mem # Absent /\ ack = Absent
  /\ mem # Absent => Loads(Lines(conf))
  /\ ~drift /\ ~Swallows(first) /\ ~ (upc \in {"copy", "rename"} /\ found) =>
       mem = Load(Lines(conf))

Inv == TypeOK /\ Writing /\ Memory /\ AckDurable /\ ConfKept

-----------------------------------------------------------------------------
(* What parse_config makes of a file.                                      *)

LEMMA LastIndex ==
  ASSUME NEW n \in Nat, NEW T, T \subseteq 1 .. n, T # {}
  PROVE  (CHOOSE i \in T : \A j \in T : j <= i) \in T
<1> DEFINE R == {ss \in Nat \X Nat : ss[1] < ss[2]}
           M == {n - i : i \in T}
<1>1. IsWellFoundedOn(R, Nat)
  BY NatLessThanWellFounded DEF OpToRel
<1>2. M \subseteq Nat /\ M # {}
  <2>1. \A i \in T : n - i \in Nat
    BY SMT
  <2>2. PICK i \in T : TRUE
    OBVIOUS
  <2>3. n - i \in M
    BY <2>2
  <2>4. QED
    BY <2>1, <2>3
<1>3. \A i, j \in Nat : j < i => <<j, i>> \in R
  OBVIOUS
<1> HIDE DEF R, M
<1>4. PICK m \in M : \A k \in M : ~ (<<k, m>> \in R)
  BY <1>1, <1>2, WFMin
<1>5. PICK i \in T : m = n - i
  BY <1>4 DEF M
<1>6. ASSUME NEW j \in T PROVE j <= i
  <2>1. n - j \in M /\ n - j \in Nat /\ m \in Nat
    BY <1>2 DEF M
  <2>2. ~ (n - j < m)
    BY <1>3, <1>4, <2>1
  <2>3. QED
    BY <1>5, <2>1, <2>2
<1>7. \E k \in T : \A j \in T : j <= k
  BY <1>6
<1>8. QED
  BY <1>7

LEMMA LineParts ==
  /\ \A v : /\ Handle(v).kind = "mode" /\ Handle(v).opt = v /\ IsDirective(Handle(v))
            /\ Handle(v) \notin {Other, Bare, Comment, CommentEof, Blank, BlankEof}
  /\ \A v \in Option : Handle(v) \in Line
  /\ \A l \in {Comment, CommentEof, Blank, BlankEof, Other} : l \in Line /\ ~IsDirective(l)
  /\ Comment \notin {CommentEof, Other} /\ Comment.kind # "mode" /\ Bare.kind # "mode"
  /\ CommentEof # BlankEof
<1>1. /\ Comment.kind = "comment" /\ CommentEof.kind = "comment at eof" /\ Blank.kind = "blank"
      /\ BlankEof.kind = "blank at eof" /\ Bare.kind = "bare" /\ Other.kind = "other"
  BY DEF Other, Bare, Comment, CommentEof, Blank, BlankEof
<1>2. \A v : Handle(v).kind = "mode" /\ Handle(v).opt = v
  BY DEF Handle
<1>3. \A l \in {Comment, CommentEof, Blank, BlankEof, Other} : ~IsDirective(l)
  BY <1>1 DEF IsDirective
<1>4. \A v : IsDirective(Handle(v))
  BY <1>2 DEF IsDirective
<1>5. \A v : Handle(v) \notin {Other, Bare, Comment, CommentEof, Blank, BlankEof}
  BY <1>1, <1>2
<1>6. \A v \in Option : Handle(v) \in Line
  BY DEF Line
<1>7. \A l \in {Comment, CommentEof, Blank, BlankEof, Other} : l \in Line
  BY DEF Line
<1>8. QED
  BY <1>1, <1>2, <1>3, <1>4, <1>5, <1>6, <1>7

LEMMA KnownIndex ==
  ASSUME NEW lines \in Seq(Line), Known(lines) # {}
  PROVE  \E i \in Known(lines) : Reads(lines) = lines[i].opt
<1> DEFINE k == CHOOSE i \in Known(lines) : \A j \in Known(lines) : j <= i
<1>1. Len(lines) \in Nat /\ Known(lines) \subseteq 1 .. Len(lines)
  BY DEF Known
<1>2. k \in Known(lines)
  BY <1>1, LastIndex
<1>3. Reads(lines) = lines[k].opt
  BY DEF Reads
<1> HIDE DEF k
<1>4. QED
  BY <1>2, <1>3

LEMMA ReadsMode ==
  ASSUME NEW lines \in Seq(Line)
  PROVE  Reads(lines) \in Mode /\ Load(lines) \in Mode \cup {Absent}
<1>1. Reads(lines) \in Mode
  <2>1. CASE Known(lines) = {}
    BY <2>1, ConfAssumption DEF Reads
  <2>2. CASE Known(lines) # {}
    BY <2>2, KnownIndex DEF Known
  <2>3. QED
    BY <2>1, <2>2
<1>2. QED
  BY <1>1 DEF Load

\* A file whose directives all say v is read as v.
LEMMA ReadsOne ==
  ASSUME NEW lines \in Seq(Line), NEW v \in Mode,
         \A i \in 1 .. Len(lines) : lines[i].kind = "mode" => lines[i] = Handle(v),
         \E i \in 1 .. Len(lines) : lines[i].kind = "mode"
  PROVE  Reads(lines) = v
<1>1. Known(lines) # {}
  BY LineParts DEF Known
<1>2. PICK i \in Known(lines) : Reads(lines) = lines[i].opt
  BY <1>1, KnownIndex
<1>3. i \in 1 .. Len(lines) /\ lines[i].kind = "mode"
  BY DEF Known
<1>4. QED
  BY <1>2, <1>3, LineParts

LEMMA ModesAre == Absent \notin Mode /\ Mode \subseteq Option /\ Absent \notin Seq(Line)
  BY ConfAssumption, AbsentAssumption

-----------------------------------------------------------------------------
(* What update_conf writes.                                                *)

LEMMA NoLines == <<>> \in Seq(Line) /\ <<>> # Absent
<1>1. <<>> \in Seq(Line)
  OBVIOUS
<1>2. QED
  BY <1>1, ModesAre, Zenon

LEMMA FileLines == TypeOK => Lines(conf) \in Seq(Line)
  BY DEF TypeOK, Lines

\* A directive behind the others: on a line of its own, or on the last one.
IsAdded(L, l, t) ==
  /\ t \in Seq(Line)
  /\ Len(L) <= Len(t)
  /\ \A i \in 1 .. Len(t) :
       \/ i <= Len(L) /\ t[i] = L[i]
       \/ i <= Len(L) /\ L[i] = CommentEof /\ t[i] = Comment
       \/ i <= Len(L) /\ L[i] = BlankEof /\ t[i] = l
       \/ i > Len(L) /\ t[i] = l
  /\ \/ L # <<>> /\ L[Len(L)] = CommentEof
     \/ \E i \in 1 .. Len(t) : t[i] = l

LEMMA AddedLines ==
  ASSUME NEW L \in Seq(Line), NEW l \in Line, NEW t, t = Added(L, l)
  PROVE  IsAdded(L, l, t)
<1>1. PICK n \in Nat : n = Len(L)
  OBVIOUS
<1>2. DOMAIN L = 1 .. n /\ (n = 0 <=> L = <<>>)
  BY <1>1
<1>3. CASE n = 0 \/ L[n] \notin {CommentEof, BlankEof}
  <2>1. t = Append(L, l)
    BY <1>1, <1>3, Zenon DEF Added
  <2>2. /\ t \in Seq(Line) /\ Len(t) = n + 1 /\ t[n + 1] = l
        /\ \A i \in 1 .. n : t[i] = L[i]
    BY <1>1, <2>1, AppendProperties
  <2>3. \A i \in 1 .. Len(t) : (i <= n /\ t[i] = L[i]) \/ (i > n /\ t[i] = l)
    BY <2>2
  <2>4. n + 1 \in 1 .. Len(t)
    BY <2>2
  <2>5. QED
    BY <1>1, <2>2, <2>3, <2>4 DEF IsAdded
<1>4. CASE ~ (n = 0 \/ L[n] \notin {CommentEof, BlankEof})
  <2>1. PICK m : m = IF L[n] = CommentEof THEN Comment ELSE l
    OBVIOUS
  <2>2. t = [L EXCEPT ![n] = m]
    BY <1>1, <1>4, <2>1, Zenon DEF Added
  <2>3. m \in Line /\ n \in 1 .. n
    BY <1>4, <2>1, LineParts
  <2>4. /\ t \in Seq(Line) /\ Len(t) = n /\ t[n] = m
        /\ \A i \in 1 .. n : i # n => t[i] = L[i]
    BY <1>1, <1>2, <2>2, <2>3
  <2>5. /\ L[n] = CommentEof => m = Comment
        /\ L[n] # CommentEof => L[n] = BlankEof /\ m = l
    BY <1>4, <2>1
  <2>6. ASSUME NEW i \in 1 .. n
        PROVE  t[i] = L[i] \/ (L[i] = CommentEof /\ t[i] = Comment) \/ (L[i] = BlankEof /\ t[i] = l)
    BY <2>4, <2>5
  <2>7. (L # <<>> /\ L[n] = CommentEof) \/ \E i \in 1 .. n : t[i] = l
    BY <1>2, <1>4, <2>3, <2>4, <2>5
  <2>8. QED
    BY <1>1, <2>4, <2>6, <2>7 DEF IsAdded
<1>5. QED
  BY <1>3, <1>4

\* A file that would swallow an added directive has done so from the start.
LEMMA SwallowsFirst ==
  ASSUME NEW old \in Seq(Line), NEW new \in Seq(Line), KeepsTheRest(old, new), Swallows(new)
  PROVE  Swallows(old)
<1>1. PICK n \in Nat : n = Len(new)
  OBVIOUS
<1>2. /\ n # 0 /\ DOMAIN new = 1 .. n /\ new[n] = CommentEof
      /\ \A i \in 1 .. n : ~IsDirective(new[i])
  BY <1>1 DEF Swallows
<1>3. Len(old) \in Nat /\ DOMAIN old = 1 .. Len(old) /\ Len(old) <= n
  BY <1>1 DEF KeepsTheRest
<1>4. \A i \in 1 .. n : i <= Len(old) /\ Becomes(old[i], new[i])
  BY <1>1, <1>2 DEF KeepsTheRest
<1>5. n \in 1 .. n
  BY <1>2
<1>6. Len(old) = n
  <2>1. \A i \in 1 .. n : i <= Len(old)
    BY <1>4, Zenon
  <2>2. n <= Len(old)
    BY <1>5, <2>1, Zenon
  <2>3. Len(old) <= n /\ Len(old) \in Nat
    BY <1>3, Zenon
  <2>4. QED
    BY <2>2, <2>3
<1>7. \A i \in 1 .. n : ~IsDirective(old[i])
  BY <1>2, <1>4 DEF Becomes
<1>8. old[n] = CommentEof
  BY <1>2, <1>4, <1>5, LineParts DEF Becomes
<1>9. QED
  BY <1>2, <1>3, <1>6, <1>7, <1>8 DEF Swallows

\* The whole of the new file.
LEMMA NewFile ==
  ASSUME TypeOK, Writing, upc = "rename"
  PROVE  /\ tmp \in Seq(Line) /\ value \in Mode /\ mem = value
         /\ ~Swallows(Lines(conf)) => Reads(tmp) = value
         /\ KeepsTheRest(Lines(conf), tmp)
         /\ Loads(Lines(conf)) => Loads(tmp)
<1>1. PICK L \in Seq(Line) : L = Lines(conf)
  BY FileLines
<1>2. tmp \in Seq(Line) /\ rest = <<>> /\ found /\ value \in Mode /\ mem = value /\ (Rewriting \/ Adding)
  BY DEF TypeOK, Writing, Copied
<1>3. PICK H \in Line : H = Handle(value)
  BY <1>2, LineParts, ModesAre
<1>4. H.kind = "mode" /\ H.opt = value /\ IsDirective(H) /\ H # Other
  BY <1>3, LineParts
<1>5. /\ Len(L) <= Len(tmp)
      /\ \A i \in 1 .. Len(tmp) :
           \/ i <= Len(L) /\ tmp[i] = L[i] /\ ~IsDirective(L[i])
           \/ i <= Len(L) /\ L[i] = CommentEof /\ tmp[i] = Comment
           \/ i <= Len(L) /\ (L[i] = BlankEof \/ IsDirective(L[i])) /\ tmp[i] = H
           \/ i > Len(L) /\ tmp[i] = H
      /\ ~Swallows(L) => \E i \in 1 .. Len(tmp) : tmp[i] = H
  <2>1. CASE Rewriting
    <3>1. /\ Len(tmp) = Len(L) /\ Len(L) \in Nat
          /\ \A i \in 1 .. Len(tmp) : tmp[i] = IF IsDirective(L[i]) THEN H ELSE L[i]
          /\ \E i \in 1 .. Len(tmp) : IsDirective(L[i])
      BY <1>1, <1>2, <1>3, <2>1 DEF Rewriting, Rewritten
    <3>2. QED
      BY <3>1
  <2>2. CASE Adding
    <3>1. /\ \A i \in 1 .. Len(L) : ~IsDirective(L[i])
          /\ tmp = Added(L, H)
      BY <1>1, <1>3, <2>2, Zenon DEF Adding
    <3>2. IsAdded(L, H, tmp)
      BY <3>1, AddedLines, Zenon
    <3>3. ~Swallows(L) => \E i \in 1 .. Len(tmp) : tmp[i] = H
      BY <3>1, <3>2 DEF Swallows, IsAdded
    <3>4. \A i \in 1 .. Len(tmp) : i <= Len(L) => ~IsDirective(L[i])
      BY <3>1
    <3>5. QED
      BY <3>2, <3>3, <3>4 DEF IsAdded
  <2>3. QED
    BY <1>2, <2>1, <2>2
<1>6. \A i \in 1 .. Len(tmp) : tmp[i].kind = "mode" => tmp[i] = H
  BY <1>5, LineParts DEF IsDirective
<1>7. ~Swallows(L) => Reads(tmp) = value
  BY <1>2, <1>3, <1>4, <1>5, <1>6, ReadsOne
<1>8. KeepsTheRest(L, tmp)
  <2>1. ASSUME NEW i \in 1 .. Len(tmp)
        PROVE  IF i <= Len(L) THEN Becomes(L[i], tmp[i]) ELSE IsDirective(tmp[i])
    <3>1. ~IsDirective(CommentEof) /\ ~IsDirective(BlankEof) /\ Len(L) \in Nat
      BY LineParts
    <3>2. QED
      BY <1>4, <1>5, <3>1 DEF Becomes
  <2>2. QED
    BY <1>5, <2>1 DEF KeepsTheRest
<1>9. ASSUME Loads(L) PROVE Loads(tmp)
  <2>1. ASSUME NEW i \in 1 .. Len(tmp)
        PROVE  tmp[i] # Other /\ (tmp[i].kind = "mode" => tmp[i].opt \in Mode)
    <3>1. CASE i <= Len(L) /\ tmp[i] = L[i]
      <4>1. i \in DOMAIN L
        BY <3>1
      <4>2. QED
        BY <1>9, <3>1, <4>1 DEF Loads
    <3>2. CASE tmp[i] = H
      BY <1>2, <1>4, <3>2
    <3>3. CASE tmp[i] = Comment
      BY <3>3, LineParts
    <3>4. QED
      BY <1>5, <3>1, <3>2, <3>3
  <2>2. QED
    BY <1>2, <2>1 DEF Loads
<1>10. QED
  BY <1>1, <1>2, <1>7, <1>8, <1>9

\* The next line of the file, with the new value when it is the directive.
LEMMA WriteLine ==
  ASSUME TypeOK, upc = "copy", Rewriting, rest # <<>>, NEW l, l = Rewritten(Head(rest)),
         tmp' = Append(tmp, l), rest' = Tail(rest), UNCHANGED <<conf, value>>,
         found' <=> found \/ IsDirective(Head(rest)), value \in Mode \/ ~IsDirective(Head(rest))
  PROVE  Rewriting' /\ tmp' \in Seq(Line) /\ rest' \in Seq(Line)
<1> PICK L : L = Lines(conf)
  OBVIOUS
<1>1. L \in Seq(Line) /\ rest \in Seq(Line) /\ tmp \in Seq(Line)
      /\ Len(L) \in Nat /\ Len(rest) \in Nat /\ Len(tmp) \in Nat
  BY FileLines DEF TypeOK
<1>2. Len(rest) >= 1 /\ Head(rest) = rest[1] /\ rest' \in Seq(Line) /\ Len(rest') = Len(rest) - 1
      /\ \A i \in 1 .. Len(rest) - 1 : rest'[i] = rest[i + 1]
  BY <1>1
<1>3. rest[1] \in Line
  BY <1>1, <1>2
<1>4. l \in Line
  BY <1>2, <1>3, LineParts, ModesAre DEF Rewritten
<1>5. /\ tmp' \in Seq(Line) /\ Len(tmp') = Len(tmp) + 1 /\ tmp'[Len(tmp) + 1] = l
      /\ \A i \in 1 .. Len(tmp) : tmp'[i] = tmp[i]
  BY <1>1, <1>4, AppendProperties
<1>6. /\ Len(rest) <= Len(L)
      /\ \A i \in 1 .. Len(rest) : rest[i] = L[Len(L) - Len(rest) + i]
      /\ Len(tmp) = Len(L) - Len(rest)
      /\ \A i \in 1 .. Len(tmp) : tmp[i] = Rewritten(L[i])
      /\ found <=> \E i \in 1 .. Len(tmp) : IsDirective(L[i])
  BY Zenon DEF Rewriting
<1>7. Len(tmp') = Len(L) - Len(rest') /\ Len(rest') <= Len(L)
  BY <1>1, <1>2, <1>5, <1>6
<1>8. Head(rest) = L[Len(tmp) + 1]
  <2>1. 1 \in 1 .. Len(rest)
    BY <1>1, <1>2
  <2>2. rest[1] = L[Len(L) - Len(rest) + 1]
    BY <1>6, <2>1
  <2>3. QED
    BY <1>2, <1>6, <2>2
<1>9. ASSUME NEW i \in 1 .. Len(rest') PROVE rest'[i] = L[Len(L) - Len(rest') + i]
  <2>1. rest'[i] = rest[i + 1] /\ i + 1 \in 1 .. Len(rest) /\ i \in Nat
    BY <1>1, <1>2
  <2>2. rest[i + 1] = L[Len(L) - Len(rest) + (i + 1)]
    BY <1>6, <2>1
  <2>3. Len(L) - Len(rest) + (i + 1) = Len(L) - Len(rest') + i
    BY <1>1, <1>2, <2>1
  <2>4. QED
    BY <2>1, <2>2, <2>3
<1>10. \A x : Rewritten(x)' = Rewritten(x)
  BY DEF Rewritten, Handle
<1>11. ASSUME NEW i \in 1 .. Len(tmp') PROVE tmp'[i] = Rewritten(L[i])
  <2>1. CASE i = Len(tmp) + 1
    BY <1>5, <1>8, <2>1
  <2>2. CASE i # Len(tmp) + 1
    <3>1. i \in 1 .. Len(tmp)
      BY <1>1, <1>5, <2>2
    <3>2. QED
      BY <1>5, <1>6, <3>1
  <2>3. QED
    BY <2>1, <2>2
<1>12. found' <=> \E i \in 1 .. Len(tmp') : IsDirective(L[i])
  <2>1. 1 .. Len(tmp') = 1 .. Len(tmp) \cup {Len(tmp) + 1}
    BY <1>1, <1>5
  <2>2. QED
    BY <1>6, <1>8, <2>1
<1>13. L = Lines(conf)'
  BY DEF Lines
<1>14. Rewriting' <=>
         /\ Len(rest') <= Len(L)
         /\ \A i \in 1 .. Len(rest') : rest'[i] = L[Len(L) - Len(rest') + i]
         /\ Len(tmp') = Len(L) - Len(rest')
         /\ \A i \in 1 .. Len(tmp') : tmp'[i] = Rewritten(L[i])'
         /\ found' <=> \E i \in 1 .. Len(tmp') : IsDirective(L[i])
  BY <1>13 DEF Rewriting
<1>15. QED
  BY <1>2, <1>5, <1>7, <1>9, <1>10, <1>11, <1>12, <1>14

\* The directive at the end.
LEMMA WriteLast ==
  ASSUME TypeOK, upc = "copy", Rewriting, rest = <<>>, ~found, value \in Mode,
         tmp' = Added(tmp, Handle(value)), UNCHANGED <<conf, value, rest>>, found' = TRUE
  PROVE  Adding' /\ tmp' \in Seq(Line)
<1>1. PICK L \in Seq(Line) : L = Lines(conf)
  BY FileLines
<1>2. tmp \in Seq(Line) /\ Len(rest) = 0 /\ Len(L) \in Nat /\ Handle(value) \in Line
  BY LineParts, ModesAre DEF TypeOK
<1>3. /\ Len(tmp) = Len(L)
      /\ \A i \in 1 .. Len(L) : ~IsDirective(L[i]) /\ tmp[i] = L[i]
  BY <1>1, <1>2 DEF Rewriting, Rewritten
<1>4. tmp = L
  BY <1>1, <1>2, <1>3
<1>5. PICK H \in Line : H = Handle(value)
  BY <1>2
<1>6. tmp' = Added(L, H)
  BY <1>4, <1>5
<1>7. IsAdded(L, H, tmp')
  BY <1>1, <1>6, AddedLines, Zenon
<1>8. L = Lines(conf)'
  BY <1>1 DEF Lines
<1>9. Handle(value)' = Handle(value)
  BY DEF Handle
<1>10. Adding'
  BY <1>3, <1>5, <1>6, <1>8, <1>9 DEF Adding, Added
<1>11. QED
  BY <1>7, <1>10 DEF IsAdded

-----------------------------------------------------------------------------
(* The steps.                                                              *)

\* As long as the file stays, what was said of it stays true.
LEMMA SameFile ==
  ASSUME AckDurable, ConfKept, Lines(conf)' = Lines(conf), first' = first, ack' \in {ack, Absent}
  PROVE  AckDurable' /\ ConfKept'
<1>1. PICK L : L = Lines(conf) /\ L = Lines(conf)'
  OBVIOUS
<1>2. AckDurable'
  <2>1. ack # Absent /\ ~Swallows(first) => Reads(L) = ack /\ Load(L) = ack
    BY <1>1 DEF AckDurable
  <2>2. QED
    BY <1>1, <2>1 DEF AckDurable, Reads, Known, Load, Loads, Swallows
<1>3. ConfKept'
  <2>1. KeepsTheRest(first, L) /\ (Loads(first) => Loads(L))
    BY <1>1 DEF ConfKept
  <2>2. QED
    BY <1>1, <2>1 DEF ConfKept, KeepsTheRest, Loads
<1>4. QED
  BY <1>2, <1>3

LEMMA InitInv == Init => Inv
<1> SUFFICES ASSUME Init PROVE Inv
  OBVIOUS
<1>1. conf = Absent \/ conf \in Seq(Line)
  <2>1. CASE conf \in File
    <3>1. PICK m \in 0 .. MaxLines : conf \in [1 .. m -> Line]
      BY <2>1 DEF SeqOf, File
    <3>2. m \in Nat
      BY ConfAssumption
    <3>3. QED
      BY <3>1, <3>2, SeqDef
  <2>2. QED
    BY <2>1 DEF Init
<1>2. PICK L \in Seq(Line) : L = Lines(conf)
  <2>1. Lines(conf) \in Seq(Line)
    BY <1>1, NoLines DEF Lines
  <2>2. QED
    BY <2>1
<1>3. mem = Load(L) /\ mem \in Mode \cup {Absent} /\ first = L
  BY <1>2, ReadsMode DEF Init
<1>4. TypeOK
  <2>1. Default \in Option
    BY ConfAssumption
  <2>2. QED
    BY <1>1, <1>2, <1>3, <2>1, NoLines DEF Init, TypeOK
<1>5. Writing /\ AckDurable
  BY DEF Init, Writing, AckDurable
<1>6. Memory
  BY <1>2, <1>3 DEF Init, Memory, Load
<1>7. ConfKept
  BY <1>2, <1>3 DEF ConfKept, KeepsTheRest, Becomes
<1>8. QED
  BY <1>4, <1>5, <1>6, <1>7 DEF Inv

LEMMA BeginInv == ASSUME Inv, NEW v \in Option, Begin(v) PROVE Inv'
<1> USE DEF Inv, Begin
<1>1. Lines(conf)' = Lines(conf)
  BY DEF Lines
<1>2. TypeOK'
  BY ModesAre DEF TypeOK
<1>3. Writing'
  BY DEF Writing
<1>4. Memory'
  BY <1>1 DEF Memory, Load, Loads, Reads, Known, Swallows
<1>5. AckDurable' /\ ConfKept'
  BY <1>1, SameFile
<1>6. QED
  BY <1>2, <1>3, <1>4, <1>5

LEMMA OpenInv == ASSUME Inv, OpenConf \/ MakeTemp PROVE Inv'
<1> USE DEF Inv, OpenConf, MakeTemp
<1>1. Lines(conf) \in Seq(Line) /\ Lines(conf) # Absent /\ <<>> \in Seq(Line) /\ <<>> # Absent
  BY FileLines, ModesAre, NoLines
<1>2. Lines(conf)' = Lines(conf)
  BY <1>1 DEF Lines
<1>3. TypeOK'
  BY <1>1 DEF TypeOK
<1>4. Writing'
  <2>1. CASE OpenConf
    BY <1>2, <2>1 DEF Writing
  <2>2. CASE MakeTemp
    <3>1. PICK L : L = Lines(conf) /\ L = Lines(conf)'
      BY <1>2
    <3>2. rest = L /\ ~found /\ L \in Seq(Line) /\ Len(L) \in Nat
      BY <1>1, <2>2, <3>1 DEF Writing
    <3>3. \A i \in 1 .. Len(L) : L[i] = L[Len(L) - Len(L) + i]
      BY <3>2
    <3>4. Copied'
      BY <2>2, <3>1, <3>2, <3>3 DEF Copied, Rewriting
    <3>5. QED
      BY <2>2, <3>4 DEF Writing
  <2>3. QED
    BY <2>1, <2>2
<1>5. Memory'
  <2>1. ~found
    BY DEF Writing
  <2>2. QED
    BY <1>2, <2>1 DEF Memory, Load, Loads, Reads, Known, Swallows
<1>6. AckDurable' /\ ConfKept'
  BY <1>2, SameFile
<1>7. QED
  BY <1>3, <1>4, <1>5, <1>6

LEMMA FailInv == ASSUME Inv, OpenFails \/ MakeTempFails \/ RenameFailed PROVE Inv'
<1> USE DEF Inv, OpenFails, MakeTempFails, RenameFailed, Fail
<1>1. Lines(conf)' = Lines(conf)
  BY DEF Lines
<1>2. TypeOK'
  BY DEF TypeOK
<1>3. Writing'
  BY DEF Writing
<1>4. Memory'
  BY <1>1 DEF Memory, Load, Loads, Reads, Known, Swallows
<1>5. AckDurable' /\ ConfKept'
  BY <1>1, SameFile
<1>6. QED
  BY <1>2, <1>3, <1>4, <1>5

\* The loop of update_conf, and the line it adds at the end.
LEMMA CopyInv == ASSUME Inv, CopyLine \/ ReplaceLine \/ AddLine PROVE Inv'
<1>1. /\ upc = "copy" /\ UNCHANGED <<conf, first, value, ack, drift>>
      /\ Lines(conf)' = Lines(conf) /\ TypeOK /\ Copied /\ Memory
      /\ tmp \in Seq(Line) /\ rest \in Seq(Line)
  BY DEF Inv, TypeOK, Writing, CopyLine, ReplaceLine, AddLine, Lines
<1>2. AckDurable' /\ ConfKept'
  BY <1>1, SameFile DEF Inv
<1>3. CASE CopyLine
  <2>1. PICK l : l = Head(rest)
    OBVIOUS
  <2>2. /\ rest # <<>> /\ ~IsDirective(l) /\ tmp' = Append(tmp, l) /\ rest' = Tail(rest)
        /\ UNCHANGED <<mem, found, upc>>
    BY <1>3, <2>1 DEF CopyLine
  <2>3. l = Rewritten(Head(rest)) /\ Rewriting
    BY <1>1, <2>1, <2>2 DEF Rewritten, Copied, Adding
  <2>4. Rewriting' /\ tmp' \in Seq(Line) /\ rest' \in Seq(Line)
    BY <1>1, <2>1, <2>2, <2>3, WriteLine
  <2>5. Copied'
    BY <1>1, <2>2, <2>4 DEF Copied
  <2>6. TypeOK'
    BY <1>1, <2>2, <2>4, ModesAre DEF TypeOK
  <2>7. Writing'
    BY <1>1, <2>2, <2>5 DEF Writing
  <2>8. Memory'
    BY <1>1, <2>2 DEF Memory, Load, Loads, Reads, Known, Swallows
  <2>9. QED
    BY <1>2, <2>6, <2>7, <2>8 DEF Inv
<1>4. CASE ReplaceLine \/ AddLine
  <2>1. PICK w : /\ SetValue(w) /\ found' = TRUE
                 /\ \/ /\ rest # <<>> /\ rest' = Tail(rest) /\ IsDirective(Head(rest))
                       /\ w = Append(tmp, Handle(value))
                    \/ rest = <<>> /\ rest' = rest /\ ~found /\ w = Added(tmp, Handle(value))
    BY <1>4 DEF ReplaceLine, AddLine
  <2>2. Rewriting
    BY <1>1, <2>1 DEF Copied, Adding
  <2>3. CASE value \in Mode
    <3>1. mem' = value /\ tmp' = w /\ UNCHANGED upc
      BY <2>1, <2>3 DEF SetValue
    <3>2. (Rewriting' \/ Adding') /\ tmp' \in Seq(Line) /\ rest' \in Seq(Line)
      <4>1. CASE rest # <<>>
        <5>1. PICK l : l = Handle(value)
          OBVIOUS
        <5>2. l = Rewritten(Head(rest)) /\ tmp' = Append(tmp, l) /\ rest' = Tail(rest)
          BY <2>1, <3>1, <4>1, <5>1 DEF Rewritten
        <5>3. QED
          BY <1>1, <2>1, <2>2, <2>3, <4>1, <5>2, WriteLine
      <4>2. CASE rest = <<>>
        BY <1>1, <2>1, <2>2, <2>3, <3>1, <4>2, WriteLast
      <4>3. QED
        BY <4>1, <4>2
    <3>3. Copied'
      BY <1>1, <2>3, <3>1, <3>2 DEF Copied
    <3>4. TypeOK'
      BY <1>1, <2>1, <2>3, <3>1, <3>2, ModesAre DEF TypeOK
    <3>5. Writing'
      BY <1>1, <3>1, <3>3 DEF Writing
    <3>6. Memory'
      BY <1>1, <2>1, <2>3, <3>1, ModesAre DEF Memory, Loads
    <3>7. QED
      BY <1>2, <3>4, <3>5, <3>6 DEF Inv
  <2>4. CASE value \notin Mode
    <3>1. mem' = mem /\ tmp' = Absent /\ upc' = "idle"
      BY <2>1, <2>4 DEF SetValue
    <3>2. ~found
      BY <1>1, <2>4 DEF Copied
    <3>3. rest' \in Seq(Line)
      <4>1. rest' = rest \/ (rest # <<>> /\ rest' = Tail(rest))
        BY <2>1
      <4>2. rest \in Seq(Line)
        BY <1>1
      <4>3. QED
        BY <4>1, <4>2
    <3>4. TypeOK'
      BY <1>1, <2>1, <3>1, <3>3 DEF TypeOK
    <3>5. Writing'
      BY <3>1 DEF Writing
    <3>6. Memory'
      BY <1>1, <3>1, <3>2 DEF Memory, Load, Loads, Reads, Known, Swallows
    <3>7. QED
      BY <1>2, <3>4, <3>5, <3>6 DEF Inv
  <2>5. QED
    BY <2>3, <2>4
<1>5. QED
  BY <1>3, <1>4

LEMMA CloseInv == ASSUME Inv, CloseFiles PROVE Inv'
<1> USE DEF Inv, CloseFiles
<1>1. Lines(conf)' = Lines(conf)
  BY DEF Lines
<1>2. TypeOK'
  BY DEF TypeOK
<1>3. Writing'
  BY <1>1 DEF Writing, Copied, Rewriting, Rewritten, Adding, Added
<1>4. Memory'
  BY <1>1 DEF Memory, Load, Loads, Reads, Known, Swallows
<1>5. AckDurable' /\ ConfKept'
  BY <1>1, SameFile
<1>6. QED
  BY <1>2, <1>3, <1>4, <1>5

\* One update after another.
LEMMA KeepsTwice ==
  ASSUME NEW a \in Seq(Line), NEW b \in Seq(Line), NEW c \in Seq(Line),
         KeepsTheRest(a, b), KeepsTheRest(b, c)
  PROVE  KeepsTheRest(a, c)
<1>1. /\ Len(a) \in Nat /\ Len(b) \in Nat /\ Len(c) \in Nat
      /\ Len(a) <= Len(b) /\ Len(b) <= Len(c)
  BY DEF KeepsTheRest
<1>2. ASSUME NEW k, NEW l, NEW m, Becomes(k, l), Becomes(l, m) PROVE Becomes(k, m)
  <2>1. ~IsDirective(Comment) /\ Comment # CommentEof /\ Comment # BlankEof
    BY LineParts DEF Comment, BlankEof
  <2>2. QED
    BY <1>2, <2>1 DEF Becomes
<1>3. \A l, m : IsDirective(l) /\ Becomes(l, m) => IsDirective(m)
  BY DEF Becomes
<1>4. ASSUME NEW i \in 1 .. Len(c)
      PROVE  IF i <= Len(a) THEN Becomes(a[i], c[i]) ELSE IsDirective(c[i])
  <2>1. IF i <= Len(b) THEN Becomes(b[i], c[i]) ELSE IsDirective(c[i])
    BY DEF KeepsTheRest
  <2>2. CASE i <= Len(b)
    <3>1. i \in 1 .. Len(b)
      BY <1>1, <2>2
    <3>2. IF i <= Len(a) THEN Becomes(a[i], b[i]) ELSE IsDirective(b[i])
      BY <3>1 DEF KeepsTheRest
    <3>3. QED
      BY <1>2, <1>3, <2>1, <2>2, <3>2
  <2>3. CASE ~ (i <= Len(b))
    BY <1>1, <2>1, <2>3
  <2>4. QED
    BY <2>2, <2>3
<1>5. QED
  BY <1>1, <1>4 DEF KeepsTheRest

LEMMA RenameInv == ASSUME Inv, Rename PROVE Inv'
<1> USE DEF Inv, Rename
<1>1. PICK L \in Seq(Line) : L = Lines(conf)
  BY FileLines
<1>2. PICK t \in Seq(Line) : t = tmp
  BY NewFile
<1>3. /\ value \in Mode /\ mem = value /\ KeepsTheRest(L, t)
      /\ ~Swallows(L) => Reads(t) = value
      /\ Loads(L) => Loads(t)
  BY <1>1, <1>2, NewFile
<1>4. KeepsTheRest(first, L) /\ (Loads(first) => Loads(L)) /\ first \in Seq(Line)
  BY <1>1 DEF ConfKept, TypeOK
<1>5. Loads(t) /\ (~Swallows(first) => Reads(t) = value /\ Load(t) = value)
  BY <1>1, <1>3, <1>4, SwallowsFirst, ModesAre DEF Memory, Load
<1>6. Lines(conf)' = t
  BY <1>2, ModesAre DEF Lines
<1>7. TypeOK'
  BY <1>2, <1>3 DEF TypeOK
<1>8. Writing'
  BY DEF Writing
<1>9. /\ Loads(Lines(conf))'
      /\ ~Swallows(first)' => Load(Lines(conf))' = value /\ Reads(Lines(conf))' = value
  BY <1>3, <1>5, <1>6 DEF Load, Loads, Reads, Known, Swallows
<1>10. Memory' /\ AckDurable'
  BY <1>3, <1>9 DEF Memory, AckDurable
<1>11. ConfKept'
  <2>1. KeepsTheRest(first, t)
    BY <1>1, <1>2, <1>3, <1>4, KeepsTwice
  <2>2. QED
    BY <1>5, <1>6, <2>1 DEF ConfKept, KeepsTheRest, Loads
<1>12. QED
  BY <1>7, <1>8, <1>10, <1>11

LEMMA DieInv == ASSUME Inv, Die PROVE Inv'
<1> USE DEF Inv, Die
<1>1. Lines(conf)' = Lines(conf)
  BY DEF Lines
<1>2. TypeOK'
  <2>1. mem' \in Mode \cup {Absent}
    BY FileLines, ReadsMode
  <2>2. QED
    BY <2>1, NoLines DEF TypeOK
<1>3. Writing'
  BY DEF Writing
<1>4. Memory'
  BY <1>1 DEF Memory, Load, Loads, Reads, Known, Swallows
<1>5. AckDurable' /\ ConfKept'
  BY <1>1, SameFile
<1>6. QED
  BY <1>2, <1>3, <1>4, <1>5

LEMMA StutterInv == ASSUME Inv, UNCHANGED vars PROVE Inv'
<1> USE DEF Inv, vars
<1>1. Lines(conf)' = Lines(conf)
  BY DEF Lines
<1>2. TypeOK' /\ Writing'
  BY <1>1 DEF TypeOK, Writing, Copied, Rewriting, Rewritten, Adding, Added
<1>3. Memory'
  BY <1>1 DEF Memory, Load, Loads, Reads, Known, Swallows
<1>4. AckDurable' /\ ConfKept'
  BY <1>1, SameFile
<1>5. QED
  BY <1>2, <1>3, <1>4

LEMMA AlwaysInv == Spec => []Inv
<1>1. Inv /\ [Next]_vars => Inv'
  BY BeginInv, OpenInv, FailInv, CopyInv, CloseInv, RenameInv, DieInv, StutterInv
     DEF Next, UpdateConf
<1>2. QED
  BY <1>1, InitInv, PTL DEF Spec

-----------------------------------------------------------------------------
(* What it gives.                                                          *)

\* The type of every variable; update_conf has a temporary file only between
\* mkstemp and rename.
THEOREM TypeCorrect == Spec => []TypeOK
<1>1. Inv => TypeOK
  BY DEF Inv
<1>2. QED
  BY <1>1, AlwaysInv, PTL

\* A mode that update_conf has acknowledged is the one parse_config reads after
\* a restart, whatever the file looked like but for one without directive that
\* ends in a comment without newline.
THEOREM AckLasts == Spec => []AckDurable
<1>1. Inv => AckDurable
  BY DEF Inv
<1>2. QED
  BY <1>1, AlwaysInv, PTL

\* No failure of a call of update_conf and no death of the daemon costs a line
\* of the file, changes one but a last line without newline that something is put
\* behind, or makes a file that parse_config refuses.
THEOREM FileKept == Spec => []ConfKept
<1>1. Inv => ConfKept
  BY DEF Inv
<1>2. QED
  BY <1>1, AlwaysInv, PTL

\* Between updates evt_handle_mode is what the file says, but after a rename
\* that failed, and but for the files that AckLasts leaves out.
THEOREM ModeAgrees == Spec => []MemoryAgrees
<1>1. Inv => MemoryAgrees
  BY DEF Inv, Memory, MemoryAgrees
<1>2. QED
  BY <1>1, AlwaysInv, PTL
=============================================================================
