---------------------------- MODULE StreamProofs ----------------------------
(***************************************************************************)
(* Stream.TypeOK and Stream.BillSound, for every set of answers, every size *)
(* of the buffers and every estimate.                                       *)
(*                                                                          *)
(* The invariant has three parts.  TypeInv is about types and the shape of  *)
(* what is in the pipe.  DeliveredInv relates the meter to the pieces that  *)
(* were read: what is buffered or was given up on came after the last line  *)
(* (Buffered), and the lines before it are what the counters hold, but for  *)
(* lines longer than the buffer (Metered).  ReportedInv relates it to the   *)
(* provider's answer: what was reported so far is in the meter or on its    *)
(* way through the pipe (Expected).  TypeInv and Buffered serve both.       *)
(***************************************************************************)
EXTENDS Stream, WellFoundedInduction, SequenceTheorems, TLAPS

-----------------------------------------------------------------------------
(* Induction.  The library's induction theorems take a predicate; this one     *)
(* takes a set, which is all that its consequences need.                       *)

LEMMA LessIsWellFounded ==
  IsWellFoundedOn({pair \in Nat \X Nat : pair[1] < pair[2]}, Nat)
BY NatLessThanWellFounded DEF OpToRel

\* A set of naturals that is not empty has a least element.
LEMMA HasLeast ==
  ASSUME NEW S \in SUBSET Nat, S # {}
  PROVE  \E x \in S : \A y \in S : x <= y
<1> DEFINE Less == {pair \in Nat \X Nat : pair[1] < pair[2]}
<1>1. \E x \in S : \A y \in S : <<y, x>> \notin Less
  <2> HIDE DEF Less
  <2>1. IsWellFoundedOn(Less, Nat)
    BY LessIsWellFounded DEF Less
  <2> QED BY <2>1, WFMin
<1>2. \A x, y \in S : <<y, x>> \notin Less => x <= y
  OBVIOUS
<1> QED BY <1>1, <1>2

\* A set that holds zero and with a number the next one holds them all.
LEMMA SetInduction ==
  ASSUME NEW S, 0 \in S, \A n \in Nat : n \in S => n + 1 \in S
  PROVE  Nat \subseteq S
<1> SUFFICES ASSUME Nat \ S # {} PROVE FALSE
  OBVIOUS
<1>1. PICK n \in Nat \ S : \A m \in Nat \ S : n <= m
  BY HasLeast
<1>2. n # 0 /\ n - 1 \in Nat /\ n - 1 \in S
  BY <1>1
<1>3. (n - 1) + 1 \in S
  BY <1>2
<1> QED BY <1>1, <1>3

\* A set of numbers up to n that is not empty has a greatest element.
LEMMA HasGreatest ==
  ASSUME NEW n \in Nat, NEW S \in SUBSET (1..n), S # {}
  PROVE  \E x \in S : \A y \in S : y <= x
<1> DEFINE T == {n - x : x \in S}
<1>1. T \in SUBSET Nat /\ T # {}
  <2>1. PICK y \in S : TRUE
    OBVIOUS
  <2>2. n - y \in T
    OBVIOUS
  <2> QED BY <2>2
<1>2. PICK d \in T : \A e \in T : d <= e
  <2> HIDE DEF T
  <2> QED BY <1>1, HasLeast
<1>3. PICK x \in S : d = n - x
  OBVIOUS
<1>4. \A y \in S : n - y \in T
  <2> TAKE y \in S
  <2> QED OBVIOUS
<1>5. \A y \in S : n - x <= n - y
  BY <1>2, <1>3, <1>4
<1>6. \A y \in S : y <= x
  BY <1>5
<1> QED BY <1>6

LEMMA MaxIsGreatest ==
  ASSUME NEW n \in Nat, NEW S \in SUBSET (1..n), S # {}
  PROVE  Max(S) \in S /\ \A y \in S : y <= Max(S)
<1>1. \E x \in S : \A y \in S : x >= y
  BY HasGreatest
<1> QED BY <1>1 DEF Max

LEMMA MaxIs ==
  ASSUME NEW S \in SUBSET Int, NEW x \in S, \A y \in S : y <= x
  PROVE  Max(S) = x
<1>1. \A z \in S : (\A y \in S : z >= y) => z = x
  OBVIOUS
<1>2. Max(S) \in S /\ \A y \in S : Max(S) >= y
  <2>1. \A y \in S : x >= y
    OBVIOUS
  <2> QED BY <2>1 DEF Max
<1> QED BY <1>1, <1>2

-----------------------------------------------------------------------------
(* Sums *)

\* The running totals of a sequence of numbers, up to n.
Totals(numbers, upTo, n) ==
  upTo = [i \in 0..n |-> IF i = 0 THEN 0 ELSE upTo[i - 1] + numbers[i]]

LEMMA TotalsExist ==
  ASSUME NEW numbers \in Seq(Nat)
  PROVE  \E upTo \in [0..Len(numbers) -> Nat] : Totals(numbers, upTo, Len(numbers))
<1> DEFINE S == {n \in Nat : n <= Len(numbers) =>
                   \E upTo \in [0..n -> Nat] : Totals(numbers, upTo, n)}
<1>1. 0 \in S
  <2> DEFINE zero == [i \in 0..0 |-> 0]
  <2>1. zero \in [0..0 -> Nat] /\ Totals(numbers, zero, 0)
    BY DEF Totals
  <2> QED BY <2>1
<1>2. ASSUME NEW n \in Nat, n \in S
      PROVE  n + 1 \in S
  <2> SUFFICES ASSUME n + 1 <= Len(numbers)
               PROVE  \E upTo \in [0..(n + 1) -> Nat] : Totals(numbers, upTo, n + 1)
    OBVIOUS
  <2>1. PICK old \in [0..n -> Nat] : Totals(numbers, old, n)
    BY <1>2
  <2> DEFINE new == [i \in 0..(n + 1) |-> IF i = n + 1 THEN old[n] + numbers[n + 1]
                                          ELSE old[i]]
  <2>2. numbers[n + 1] \in Nat /\ old[n] \in Nat
    OBVIOUS
  <2>3. new \in [0..(n + 1) -> Nat]
    BY <2>2
  <2>4. \A i \in 0..(n + 1) :
          new[i] = IF i = 0 THEN 0 ELSE new[i - 1] + numbers[i]
    <3> SUFFICES ASSUME NEW i \in 0..(n + 1)
                 PROVE  new[i] = IF i = 0 THEN 0 ELSE new[i - 1] + numbers[i]
      OBVIOUS
    <3>1. CASE i = n + 1
      BY <3>1
    <3>2. CASE i \in 0..n
      <4>1. old[i] = IF i = 0 THEN 0 ELSE old[i - 1] + numbers[i]
        BY <2>1, <3>2 DEF Totals
      <4> QED BY <3>2, <4>1
    <3> QED BY <3>1, <3>2
  <2>5. Totals(numbers, new, n + 1)
    <3> HIDE DEF new
    <3>1. new = [i \in 0..(n + 1) |-> new[i]]
      BY <2>3
    <3> QED BY <2>4, <3>1 DEF Totals
  <2> QED BY <2>3, <2>5
<1>3. Len(numbers) \in S
  <2> HIDE DEF S
  <2> QED BY <1>1, <1>2, SetInduction
<1> QED BY <1>3

Agree(f, g, n) == \A i \in 1..n : f[i] = g[i]

\* Two sequences that agree up to n have the same totals up to n.
LEMMA TotalsAgree ==
  ASSUME NEW n \in Nat, NEW k \in Nat, n <= k,
         NEW f, NEW g, NEW upTo, NEW upToo,
         Totals(f, upTo, n), Totals(g, upToo, k), Agree(f, g, n)
  PROVE  \A m \in 0..n : upTo[m] = upToo[m]
<1> SUFFICES ASSUME NEW m \in 0..n PROVE upTo[m] = upToo[m]
  OBVIOUS
<1> DEFINE S == {i \in Nat : i <= m => upTo[i] = upToo[i]}
<1>1. \A i \in 0..m : /\ upTo[i] = IF i = 0 THEN 0 ELSE upTo[i - 1] + f[i]
                      /\ upToo[i] = IF i = 0 THEN 0 ELSE upToo[i - 1] + g[i]
  BY DEF Totals
<1>2. 0 \in S
  BY <1>1
<1>3. ASSUME NEW i \in Nat, i \in S
      PROVE  i + 1 \in S
  BY <1>1, <1>3 DEF Agree
<1>4. m \in S
  <2> HIDE DEF S
  <2> QED BY <1>2, <1>3, SetInduction
<1> QED BY <1>4

\* In particular when one has a number more.
LEMMA TotalsGrow ==
  ASSUME NEW n \in Nat, NEW f, NEW g, NEW upTo, NEW upToo,
         Totals(f, upTo, n), Totals(g, upToo, n + 1), Agree(f, g, n)
  PROVE  upTo[n] = upToo[n]
<1>1. n + 1 \in Nat /\ n <= n + 1 /\ n \in 0..n
  OBVIOUS
<1>2. \A m \in 0..n : upTo[m] = upToo[m]
  BY <1>1, TotalsAgree
<1> QED BY <1>1, <1>2

\* Sum is the last of them.
LEMMA SumIsTotal ==
  ASSUME NEW numbers \in Seq(Nat)
  PROVE  \E upTo \in [0..Len(numbers) -> Nat] :
           Totals(numbers, upTo, Len(numbers)) /\ Sum(numbers) = upTo[Len(numbers)]
<1> DEFINE upTo == CHOOSE upTo : Totals(numbers, upTo, Len(numbers))
<1>1. PICK totals \in [0..Len(numbers) -> Nat] :
        Totals(numbers, totals, Len(numbers))
  BY TotalsExist
<1>2. Totals(numbers, upTo, Len(numbers))
  BY <1>1
<1>3. upTo = totals
  <2>1. \A m \in 0..Len(numbers) : upTo[m] = totals[m]
    <3> HIDE DEF upTo
    <3>1. Agree(numbers, numbers, Len(numbers))
      BY DEF Agree
    <3> QED BY <1>1, <1>2, <3>1, TotalsAgree
  <2>2. upTo = [m \in 0..Len(numbers) |-> upTo[m]]
    <3> HIDE DEF upTo
    <3> QED BY <1>2 DEF Totals
  <2> HIDE DEF upTo
  <2> QED BY <2>1, <2>2
<1>4. Sum(numbers) = upTo[Len(numbers)]
  BY DEF Sum, Totals
<1> HIDE DEF upTo
<1> QED BY <1>1, <1>2, <1>3, <1>4

LEMMA SumEmpty == Sum(<<>>) = 0
<1>0. <<>> \in Seq(Nat) /\ Len(<<>>) = 0
  OBVIOUS
<1>1. PICK upTo \in [0..0 -> Nat] : Totals(<<>>, upTo, 0) /\ Sum(<<>>) = upTo[0]
  BY <1>0, SumIsTotal
<1> QED BY <1>1 DEF Totals

\* A number that is put at the end of a sequence is added to its sum.
LEMMA SumAppend ==
  ASSUME NEW numbers \in Seq(Nat), NEW more \in Seq(Nat),
         Len(more) = Len(numbers) + 1,
         \A i \in 1..Len(numbers) : more[i] = numbers[i]
  PROVE  /\ Sum(numbers) \in Nat
         /\ Sum(more) = Sum(numbers) + more[Len(numbers) + 1]
<1> PICK n \in Nat : n = Len(numbers)
  OBVIOUS
<1>1. PICK upTo \in [0..n -> Nat] : Totals(numbers, upTo, n) /\ Sum(numbers) = upTo[n]
  BY SumIsTotal
<1>2. PICK upToo \in [0..(n + 1) -> Nat] :
        Totals(more, upToo, n + 1) /\ Sum(more) = upToo[n + 1]
  BY SumIsTotal
<1>3. upTo[n] = upToo[n]
  <2>1. Agree(numbers, more, n)
    BY DEF Agree
  <2> QED BY <1>1, <1>2, <2>1, TotalsGrow
<1>4. upToo[n + 1] = upToo[n] + more[n + 1]
  BY <1>2 DEF Totals
<1> QED BY <1>1, <1>2, <1>3, <1>4

-----------------------------------------------------------------------------
(* What the lines of a piece sequence report *)

\* The pieces that a meter may be given: those of an answer, and the chunks that a
\* translator writes.
Chunks == {c \in [text : Nat, usage : Usages, call : Int, done : BOOLEAN,
                  last : BOOLEAN] : /\ c.done => c = Done
                                    /\ ~c.last => c = Part}

LEMMA Constructors ==
  /\ NoUsage \in Usages /\ NoUsage.total = 0
  /\ Done \in Chunks /\ Done.usage = NoUsage /\ Done.done /\ Done.last
  /\ \A text \in Nat, usage \in Usages, call \in Int :
       LET c == Chunk(text, usage, call)
       IN c \in Chunks /\ c.usage = usage /\ c.last /\ ~c.done
  /\ Pieces \subseteq Chunks
  /\ \A a, b, c \in Nat : Usage(a, b, c) \in Usages
<1>1. NoUsage \in Usages /\ NoUsage.total = 0
  BY DEF NoUsage, Usages
<1>3. Done \in Chunks /\ Done.usage = NoUsage /\ Done.done /\ Done.last
  BY <1>1 DEF Chunks, NoCall, Done
<1>4. \A text \in Nat, usage \in Usages, call \in Int :
        LET c == Chunk(text, usage, call)
        IN c \in Chunks /\ c.usage = usage /\ c.last /\ ~c.done
  BY DEF Chunks, Chunk
<1>5. Pieces \subseteq Chunks
  BY DEF Pieces, Chunks, NoCall
<1>6. \A a, b, c \in Nat : Usage(a, b, c) \in Usages
  BY DEF Usages, Usage
<1> QED BY <1>1, <1>3, <1>4, <1>5, <1>6

LEMMA AppendPiece ==
  ASSUME NEW pieces \in Seq(Chunks), NEW piece \in Chunks
  PROVE  LET n    == Len(pieces)
             more == Append(pieces, piece)
         IN /\ more \in Seq(Chunks) /\ n \in Nat
            /\ Len(more) = n + 1 /\ DOMAIN pieces = 1..n /\ DOMAIN more = 1..(n + 1)
            /\ \A i \in 1..n : more[i] = pieces[i] /\ pieces[i] \in Chunks
            /\ more[n + 1] = piece
BY AppendProperties

LEMMA AppendLines ==
  ASSUME NEW pieces \in Seq(Chunks), NEW piece \in Chunks
  PROVE  LET n    == Len(pieces)
             more == Append(pieces, piece)
         IN /\ Lines(pieces) \subseteq 1..n
            /\ piece.last => Lines(more) = Lines(pieces) \cup {n + 1}
            /\ ~piece.last => Lines(more) = Lines(pieces)
            /\ \A i \in 1..n : Short(more, i) <=> Short(pieces, i)
<1> DEFINE n == Len(pieces)
           more == Append(pieces, piece)
<1>1. /\ n \in Nat /\ DOMAIN pieces = 1..n /\ DOMAIN more = 1..(n + 1)
      /\ \A i \in 1..n : more[i] = pieces[i]
      /\ more[n + 1] = piece
  BY AppendPiece
<1> HIDE DEF n, more
<1>2. Lines(pieces) \subseteq 1..n
  BY <1>1 DEF Lines
<1>3. Lines(more) = Lines(pieces) \cup (IF piece.last THEN {n + 1} ELSE {})
  BY <1>1 DEF Lines
<1>4. \A i \in 1..n : Short(more, i) <=> Short(pieces, i)
  <2> SUFFICES ASSUME NEW i \in 1..n
               PROVE  Short(more, i) <=> Short(pieces, i)
    OBVIOUS
  <2>1. \A j \in 0..(i - 1) : j # 0 => more[j] = pieces[j]
    BY <1>1
  <2> QED BY <2>1, <1>1 DEF Short
<1> QED BY <1>2, <1>3, <1>4 DEF n, more

LEMMA UsageInType ==
  ASSUME NEW pieces \in Seq(Chunks), NEW lines \in SUBSET (1..Len(pieces))
  PROVE  /\ UsageIn(pieces, lines) \in Usages
         /\ UsageIn(pieces, lines) # NoUsage => UsageIn(pieces, lines).total > 0
<1> DEFINE reports == {i \in lines : pieces[i].usage.total > 0}
<1>0. Len(pieces) \in Nat /\ reports \in SUBSET (1..Len(pieces))
  OBVIOUS
<1>1. reports # {} => Max(reports) \in reports
  <2> HIDE DEF reports
  <2> QED BY <1>0, MaxIsGreatest
<1>2. \A i \in 1..Len(pieces) : pieces[i].usage \in Usages
  <2>1. \A c \in Chunks : c.usage \in Usages
    BY DEF Chunks
  <2> QED BY <2>1
<1>3. CASE reports = {}
  BY <1>3, Constructors DEF UsageIn
<1>4. CASE reports # {}
  BY <1>1, <1>2, <1>4, Constructors DEF UsageIn
<1> QED BY <1>3, <1>4

\* A line that is added replaces the usage, if it reports one.
LEMMA UsageInAppend ==
  ASSUME NEW pieces \in Seq(Chunks), NEW piece \in Chunks,
         NEW lines \in SUBSET (1..Len(pieces))
  PROVE  LET n    == Len(pieces)
             more == Append(pieces, piece)
         IN /\ UsageIn(more, lines) = UsageIn(pieces, lines)
            /\ UsageIn(more, lines \cup {n + 1}) =
                 IF piece.usage.total > 0 THEN piece.usage
                 ELSE UsageIn(pieces, lines)
<1> DEFINE n == Len(pieces)
           more == Append(pieces, piece)
           reports == {i \in lines : pieces[i].usage.total > 0}
           reportsToo == {i \in lines \cup {n + 1} : more[i].usage.total > 0}
<1>1. /\ n \in Nat
      /\ \A i \in 1..n : more[i] = pieces[i]
      /\ more[n + 1] = piece
  BY AppendPiece
<1>2. reports = {i \in lines : more[i].usage.total > 0}
  BY <1>1
<1>3. reports # {} => Max(reports) \in reports /\ Max(reports) \in 1..n
  <2>1. reports \in SUBSET (1..n)
    OBVIOUS
  <2> HIDE DEF reports, n
  <2> QED BY <1>1, <2>1, MaxIsGreatest
<1>4. UsageIn(more, lines) = UsageIn(pieces, lines)
  <2>1. UsageIn(more, lines) = IF reports = {} THEN NoUsage
                               ELSE more[Max(reports)].usage
    BY <1>2 DEF UsageIn
  <2>2. UsageIn(pieces, lines) = IF reports = {} THEN NoUsage
                                 ELSE pieces[Max(reports)].usage
    BY DEF UsageIn
  <2> HIDE DEF reports, n, more
  <2> QED BY <1>1, <1>3, <2>1, <2>2
<1>5. UsageIn(more, lines \cup {n + 1}) =
        IF piece.usage.total > 0 THEN piece.usage ELSE UsageIn(pieces, lines)
  <2>1. CASE piece.usage.total > 0
    <3>1. n + 1 \in reportsToo /\ \A i \in reportsToo : i <= n + 1
      BY <1>1, <2>1
    <3>2. reportsToo \in SUBSET Int
      <4>1. n + 1 \in Int /\ \A i \in lines : i \in Int
        BY <1>1
      <4> QED BY <4>1
    <3>3. Max(reportsToo) = n + 1
      <4> HIDE DEF reportsToo, n
      <4> QED BY <3>1, <3>2, MaxIs
    <3>4. reportsToo # {}
      BY <3>1
    <3> QED BY <1>1, <2>1, <3>3, <3>4 DEF UsageIn
  <2>2. CASE ~(piece.usage.total > 0)
    <3>1. reportsToo = reports
      BY <1>1, <2>2
    <3>2. UsageIn(more, lines \cup {n + 1}) = UsageIn(more, lines)
      BY <1>2, <3>1 DEF UsageIn
    <3> QED BY <1>4, <2>2, <3>2
  <2> QED BY <2>1, <2>2
<1> QED BY <1>4, <1>5

\* Its text is added.
LEMMA TextInAppend ==
  ASSUME NEW pieces \in Seq(Chunks), NEW piece \in Chunks,
         NEW lines \in SUBSET (1..Len(pieces))
  PROVE  LET n    == Len(pieces)
             more == Append(pieces, piece)
         IN /\ TextIn(pieces, lines) \in Nat
            /\ TextIn(more, lines) = TextIn(pieces, lines)
            /\ TextIn(more, lines \cup {n + 1}) = TextIn(pieces, lines) + piece.text
<1> DEFINE n == Len(pieces)
           more == Append(pieces, piece)
           texts(ps, ls) == [i \in DOMAIN ps |-> IF i \in ls THEN ps[i].text ELSE 0]
<1>1. /\ n \in Nat /\ DOMAIN pieces = 1..n /\ DOMAIN more = 1..(n + 1)
      /\ \A i \in 1..n : more[i] = pieces[i] /\ pieces[i] \in Chunks
      /\ more[n + 1] = piece
  BY AppendPiece
<1>2. \A c \in Chunks : c.text \in Nat
  BY DEF Chunks
<1> HIDE DEF n, more
<1>3. piece.text \in Nat
  BY <1>2
<1>4. /\ texts(pieces, lines) \in Seq(Nat)
      /\ Len(texts(pieces, lines)) = n
  <2>1. texts(pieces, lines) \in [1..n -> Nat]
    BY <1>1, <1>2
  <2> HIDE DEF texts
  <2> QED BY <1>1, <2>1
<1>5. ASSUME NEW ls, ls \cap (1..n) = lines
      PROVE  /\ Sum(texts(pieces, lines)) \in Nat
             /\ Sum(texts(more, ls)) =
                  Sum(texts(pieces, lines)) + IF n + 1 \in ls THEN piece.text ELSE 0
  <2>1. texts(more, ls) \in [1..(n + 1) -> Nat]
    <3>1. \A i \in 1..(n + 1) : more[i].text \in Nat
      BY <1>1, <1>2, <1>3
    <3> QED BY <1>1, <3>1
  <2>2. \A i \in 1..n : texts(more, ls)[i] = texts(pieces, lines)[i]
    BY <1>1, <1>5
  <2>3. texts(more, ls)[n + 1] = IF n + 1 \in ls THEN piece.text ELSE 0
    BY <1>1
  <2> HIDE DEF texts
  <2>4. texts(more, ls) \in Seq(Nat) /\ Len(texts(more, ls)) = n + 1
    BY <1>1, <2>1
  <2> QED BY <1>4, <2>2, <2>3, <2>4, SumAppend
<1>6. lines \cap (1..n) = lines /\ n + 1 \notin lines
  <2>1. lines \subseteq 1..n
    BY DEF n
  <2>2. n + 1 \notin 1..n
    BY <1>1
  <2> QED BY <2>1, <2>2, Zenon
<1>7. (lines \cup {n + 1}) \cap (1..n) = lines
  BY <1>1, <1>6
<1>8. /\ TextIn(pieces, lines) = Sum(texts(pieces, lines))
      /\ TextIn(more, lines) = Sum(texts(more, lines))
      /\ TextIn(more, lines \cup {n + 1}) = Sum(texts(more, lines \cup {n + 1}))
  BY DEF TextIn
<1> HIDE DEF texts
<1>9. TextIn(pieces, lines) \in Nat /\ TextIn(more, lines) = TextIn(pieces, lines)
  BY <1>5, <1>6, <1>8
<1>10. TextIn(more, lines \cup {n + 1}) = TextIn(pieces, lines) + piece.text
  BY <1>5, <1>7, <1>8
<1> QED BY <1>9, <1>10 DEF n, more

-----------------------------------------------------------------------------
(* The bill *)

LEMMA AccountType ==
  ASSUME NEW m, m.usage \in Usages, m.text \in Nat
  PROVE  Account(m) \in [usage : Usages, estimated : BOOLEAN] /\ Account(m) # NoBill
<1>1. m.text \div 4 \in Nat /\ PromptEstimate + VisionEstimate \in Nat
  BY EstimateAssumption
<1>2. CASE m.usage.total = 0
  <2>1. Account(m) = [usage |-> Usage(PromptEstimate + VisionEstimate, 0,
                                      m.text \div 4),
                      estimated |-> TRUE]
    BY <1>2 DEF Account
  <2> QED BY <1>1, <2>1, Constructors DEF NoBill
<1>3. CASE m.usage.total # 0 /\ m.usage.prompt = 0 /\ VisionEstimate > 0
  <2> DEFINE usage == [m.usage EXCEPT !.prompt = VisionEstimate,
                                      !.total = VisionEstimate + m.usage.completion]
  <2>1. Account(m) = [usage |-> usage, estimated |-> FALSE]
    BY <1>3 DEF Account
  <2>2. usage \in Usages
    <3>1. /\ VisionEstimate \in Nat
          /\ m.usage \in [prompt : Nat, cached : Nat, completion : Nat, total : Nat]
      BY EstimateAssumption DEF Usages
    <3>2. VisionEstimate + m.usage.completion \in Nat
      BY <3>1
    <3> QED BY <3>1, <3>2 DEF Usages
  <2>3. usage.total > 0
    BY <1>3, EstimateAssumption DEF Usages
  <2> HIDE DEF usage
  <2> QED BY <2>1, <2>2, <2>3 DEF NoBill, NoUsage
<1>4. CASE m.usage.total # 0 /\ ~(m.usage.prompt = 0 /\ VisionEstimate > 0)
  <2>1. Account(m) = [usage |-> m.usage, estimated |-> FALSE]
    BY <1>4 DEF Account
  <2> QED BY <1>4, <2>1 DEF NoBill, NoUsage
<1> QED BY <1>2, <1>3, <1>4

\* A usage that was reported is billed, and its prompt unless that is zero.
LEMMA AccountOfReport ==
  ASSUME NEW m, m.usage \in Usages, m.usage.total > 0
  PROVE  /\ ~Account(m).estimated
         /\ Account(m).usage.completion = m.usage.completion
         /\ Account(m).usage.prompt = m.usage.prompt \/ m.usage.prompt = 0
         /\ m.usage.prompt > 0 => Account(m).usage = m.usage
BY EstimateAssumption DEF Account, Usages

\* Without one the bill is an estimate on the text.
LEMMA AccountOfText ==
  ASSUME NEW m, m.usage = NoUsage
  PROVE  /\ Account(m).estimated
         /\ Account(m).usage.prompt = PromptEstimate + VisionEstimate
         /\ Account(m).usage.completion = m.text \div 4
BY DEF Account, NoUsage, Usage

-----------------------------------------------------------------------------
(* What an answer reports *)

LEMMA ReportsGrow ==
  ASSUME NEW n \in Nat, \A j \in 1..n : ~EndsBill(j)
  PROVE  ReportedUpTo(n + 1) = IF Report(n + 1).total > 0 THEN Report(n + 1)
                               ELSE ReportedUpTo(n)
<1>1. CASE Report(n + 1).total > 0
  <2>1. n + 1 \in Reports(n + 1) /\ \A i \in Reports(n + 1) : i <= n + 1
    BY <1>1 DEF Reports
  <2>2. Reports(n + 1) \in SUBSET Int
    BY DEF Reports
  <2>3. Max(Reports(n + 1)) = n + 1
    BY <2>1, <2>2, MaxIs
  <2> QED BY <1>1, <2>1, <2>3 DEF ReportedUpTo
<1>2. CASE ~(Report(n + 1).total > 0)
  <2>1. Reports(n + 1) = Reports(n)
    BY <1>2 DEF Reports
  <2> QED BY <1>2, <2>1 DEF ReportedUpTo
<1> QED BY <1>1, <1>2

\* Nothing after the end of the bill counts.
LEMMA ReportsEnd ==
  ASSUME NEW n \in Nat \ {0}, NEW m \in Nat, n <= m, EndsBill(n)
  PROVE  ReportedUpTo(m) = ReportedUpTo(n)
<1>1. Reports(m) = Reports(n)
  BY DEF Reports
<1> QED BY <1>1 DEF ReportedUpTo

LEMMA ReportedIsUsage ==
  ASSUME NEW n \in Nat, ReportedUpTo(n) # NoUsage
  PROVE  ReportedUpTo(n).total > 0
<1>1. Reports(n) \in SUBSET (1..n)
  BY DEF Reports
<1>2. Reports(n) # {}
  BY DEF ReportedUpTo
<1>3. Max(Reports(n)) \in Reports(n)
  BY <1>1, <1>2, MaxIsGreatest
<1> QED BY <1>2, <1>3 DEF ReportedUpTo, Reports

LEMMA ReportsNone == ReportedUpTo(0) = NoUsage
<1>1. Reports(0) = {}
  BY DEF Reports
<1> QED BY <1>1 DEF ReportedUpTo

LEMMA StartedGrows ==
  ASSUME NEW n \in Nat
  PROVE  Started(n + 1) =
           IF Answer[n + 1].type = "message_start"
           THEN [input |-> Answer[n + 1].input, cached |-> Answer[n + 1].cached]
           ELSE Started(n)
<1> DEFINE starts == {i \in 1..(n + 1) : Answer[i].type = "message_start"}
<1>1. CASE Answer[n + 1].type = "message_start"
  <2>1. n + 1 \in starts /\ \A i \in starts : i <= n + 1
    BY <1>1
  <2>2. starts \in SUBSET Int
    OBVIOUS
  <2>3. starts # {}
    BY <2>1
  <2>4. Max(starts) = n + 1
    <3> HIDE DEF starts
    <3> QED BY <2>1, <2>2, MaxIs
  <2>5. Started(n + 1) = [input |-> Answer[Max(starts)].input,
                          cached |-> Answer[Max(starts)].cached]
    BY <2>3 DEF Started
  <2> HIDE DEF starts
  <2> QED BY <1>1, <2>4, <2>5
<1>2. CASE Answer[n + 1].type # "message_start"
  <2>1. starts = {i \in 1..n : Answer[i].type = "message_start"}
    BY <1>2
  <2> QED BY <1>2, <2>1 DEF Started
<1> QED BY <1>1, <1>2

LEMMA StartedNone == Started(0) = [input |-> 0, cached |-> 0]
<1>1. {i \in 1..0 : Answer[i].type = "message_start"} = {}
  OBVIOUS
<1> QED BY <1>1 DEF Started

\* The answer does not change, and with it what it reports.
LEMMA SameStream ==
  ASSUME stream' = stream
  PROVE  /\ Answer' = Answer /\ Family' = Family /\ Native' = Native
         /\ Reported' = Reported /\ Readable' = Readable
         /\ \A n : EndsBill(n)' = EndsBill(n)
         /\ \A n : Report(n)' = Report(n)
         /\ \A n : ReportedUpTo(n)' = ReportedUpTo(n)
         /\ \A n : Started(n)' = Started(n)
<1>1. Answer' = Answer /\ Family' = Family /\ Native' = Native
  BY DEF Answer, Family, Native
<1>2. \A n : EndsBill(n)' = EndsBill(n)
  BY <1>1 DEF EndsBill
<1>3. \A n : Started(n)' = Started(n)
  BY <1>1 DEF Started
<1>4. \A n : Report(n)' = Report(n)
  BY <1>1, <1>3 DEF Report
<1>5. \A n : Reports(n)' = Reports(n)
  BY <1>2, <1>4 DEF Reports
<1>6. \A n : ReportedUpTo(n)' = ReportedUpTo(n)
  BY <1>4, <1>5 DEF ReportedUpTo
<1>7. Reported' = Reported
  BY <1>1, <1>4, <1>5 DEF Reported, ReportedUpTo
<1>8. Readable' = Readable
  BY <1>1, <1>2, <1>4 DEF Readable, Short
<1> QED BY <1>1, <1>2, <1>3, <1>4, <1>6, <1>7, <1>8

-----------------------------------------------------------------------------
(* Types *)

Memories == [input : Nat, cached : Nat, calls : Seq(Nat), next : Nat, role : BOOLEAN]
Meters   == [buffered : Nat, overflowed : BOOLEAN, usage : Usages, text : Nat]

\* What TypeOK leaves out.  A translator writes whole lines, and without one the
\* meter reads the answer itself.
TypeInv ==
  /\ TypeOK
  /\ stream \in [answer : Scripts, handler : Handlers]
  /\ memory \in Memories
  /\ meter \in Meters
  /\ out \in Seq(Chunks) /\ seen \in Seq(Chunks)
  /\ Native <=> translator = "none"
  /\ Native => out = <<>>
  /\ \A i \in DOMAIN out : out[i].last

LEMMA AnswerType ==
  ASSUME stream \in [answer : Scripts, handler : Handlers]
  PROVE  /\ Len(Answer) \in Nat /\ DOMAIN Answer = 1..Len(Answer)
         /\ Native => \A i \in 1..Len(Answer) : Answer[i] \in Chunks
         /\ ~Native => \A i \in 1..Len(Answer) : Answer[i] \in Events
         /\ ~Native => Family \in {"anthropic", "gemini"}
<1>1. \/ Family \in {"anthropic", "gemini"} /\ Answer \in Seq(Events)
      \/ Family = "openai" /\ Answer \in Seq(Pieces)
  BY ScriptAssumption DEF Family, Answer
<1>2. CASE Family \in {"anthropic", "gemini"} /\ Answer \in Seq(Events)
  BY <1>2 DEF Native
<1>3. CASE Family = "openai" /\ Answer \in Seq(Pieces)
  <2>1. \A i \in 1..Len(Answer) : Answer[i] \in Pieces
    BY <1>3
  <2> QED BY <1>3, <2>1, Constructors DEF Native
<1> QED BY <1>1, <1>2, <1>3

\* The chunks that are written for an event that reports this usage and may end
\* the bill.
Writes(chunks, usage, ends) ==
  /\ chunks \in Seq(Chunks)
  /\ \A i \in DOMAIN chunks : /\ chunks[i].last
                              /\ chunks[i].usage.total > 0 => chunks[i].usage = usage
                              /\ chunks[i].done => ends
  /\ usage.total > 0 => \E i \in DOMAIN chunks : chunks[i].usage.total > 0
  /\ ends => \E i \in DOMAIN chunks : chunks[i].done

LEMMA WritesNothing == Writes(<<>>, NoUsage, FALSE)
BY Constructors DEF Writes

LEMMA WritesOne ==
  ASSUME NEW c \in Chunks, c.last
  PROVE  Writes(<<c>>, c.usage, c.done)
<1>1. <<c>> \in Seq(Chunks) /\ DOMAIN <<c>> = {1} /\ <<c>>[1] = c
  OBVIOUS
<1> QED BY <1>1 DEF Writes

LEMMA WritesChunk ==
  ASSUME NEW text \in Nat, NEW usage \in Usages, NEW call \in Int
  PROVE  Writes(<<Chunk(text, usage, call)>>, usage, FALSE)
<1> DEFINE c == Chunk(text, usage, call)
<1>1. c \in Chunks /\ c.usage = usage /\ c.last
  BY Constructors
<1>2. c.done = FALSE
  BY DEF Chunk
<1> HIDE DEF c
<1>3. Writes(<<c>>, c.usage, c.done)
  BY <1>1, WritesOne
<1>4. Writes(<<c>>, usage, FALSE)
  BY <1>1, <1>2, <1>3
<1> QED BY <1>4 DEF c

LEMMA WritesDone == Writes(<<Done>>, NoUsage, TRUE)
<1>1. Done \in Chunks /\ Done.usage = NoUsage /\ Done.last
  BY Constructors
<1>2. Done.done = TRUE
  BY DEF Done
<1>3. Writes(<<Done>>, Done.usage, Done.done)
  BY <1>1, WritesOne
<1> QED BY <1>1, <1>2, <1>3

LEMMA WritesMore ==
  ASSUME NEW first, NEW rest, NEW usage,
         Writes(first, NoUsage, FALSE), Writes(rest, usage, FALSE)
  PROVE  Writes(first \o rest, usage, FALSE)
<1> DEFINE n == Len(first)
           m == Len(rest)
           both == first \o rest
<1>1. first \in Seq(Chunks) /\ rest \in Seq(Chunks)
  BY DEF Writes
<1>2. /\ both \in Seq(Chunks)
      /\ n \in Nat /\ m \in Nat
      /\ DOMAIN first = 1..n /\ DOMAIN rest = 1..m /\ DOMAIN both = 1..(n + m)
      /\ \A i \in 1..n : both[i] = first[i]
      /\ \A i \in (n + 1)..(n + m) : both[i] = rest[i - n]
  BY <1>1, ConcatProperties
<1> HIDE DEF both, n, m
<1>3. \A i \in 1..(n + m) : \/ i \in 1..n
                            \/ i - n \in 1..m /\ i \in (n + 1)..(n + m)
  <2>1. ASSUME NEW i \in 1..(n + m)
        PROVE  i \in 1..n \/ (i - n \in 1..m /\ i \in (n + 1)..(n + m))
    BY <1>2
  <2> QED BY <2>1
<1>4. \A i \in 1..(n + m) : /\ both[i].last
                            /\ both[i].usage.total > 0 => both[i].usage = usage
                            /\ ~both[i].done
  <2> SUFFICES ASSUME NEW i \in 1..(n + m)
               PROVE  /\ both[i].last
                      /\ both[i].usage.total > 0 => both[i].usage = usage
                      /\ ~both[i].done
    OBVIOUS
  <2>1. CASE i \in 1..n
    <3>1. i \in DOMAIN first /\ both[i] = first[i]
      BY <1>2, <2>1
    <3>2. /\ first[i].last /\ ~first[i].done
          /\ first[i].usage.total > 0 => first[i].usage = NoUsage
      BY <3>1, Zenon DEF Writes
    <3>3. ~(NoUsage.total > 0)
      BY Constructors
    <3> QED BY <3>1, <3>2, <3>3, Zenon
  <2>2. CASE i - n \in 1..m /\ i \in (n + 1)..(n + m)
    <3>1. both[i] = rest[i - n]
      BY <1>2, <2>2
    <3>2. /\ rest[i - n].last /\ ~rest[i - n].done
          /\ rest[i - n].usage.total > 0 => rest[i - n].usage = usage
      BY <1>1, <1>2, <2>2 DEF Writes
    <3> QED BY <3>1, <3>2
  <2> QED BY <1>3, <2>1, <2>2
<1>5. usage.total > 0 => \E i \in 1..(n + m) : both[i].usage.total > 0
  <2> SUFFICES ASSUME usage.total > 0
               PROVE  \E i \in 1..(n + m) : both[i].usage.total > 0
    OBVIOUS
  <2>1. PICK j \in 1..m : rest[j].usage.total > 0
    BY <1>2 DEF Writes
  <2>2. n + j \in 1..(n + m) /\ both[n + j] = rest[j]
    <3>1. n + j \in (n + 1)..(n + m) /\ (n + j) - n = j /\ n + j \in 1..(n + m)
      BY <1>2
    <3> QED BY <1>2, <3>1
  <2> QED BY <2>1, <2>2
<1> QED BY <1>2, <1>4, <1>5 DEF Writes, both

LEMMA CallOfType ==
  ASSUME memory \in Memories, NEW block
  PROVE  CallOf(block) \in Int
<1> DEFINE places == {i \in DOMAIN memory.calls : memory.calls[i] = block}
           n == Len(memory.calls)
<1>1. n \in Nat /\ DOMAIN memory.calls = 1..n
  BY DEF Memories
<1>2. CASE places = {}
  BY <1>2 DEF CallOf
<1>3. CASE places # {}
  <2>1. \E i \in DOMAIN memory.calls :
          /\ memory.calls[i] = block
          /\ \A j \in DOMAIN memory.calls : memory.calls[j] = block => j <= i
    <3>1. places \in SUBSET (1..n)
      BY <1>1
    <3>2. \E x \in places : \A y \in places : y <= x
      <4> HIDE DEF places, n
      <4> QED BY <1>1, <1>3, <3>1, HasGreatest
    <3> QED BY <3>2
  <2>2. \A i \in DOMAIN memory.calls : i - 1 \in Int
    BY <1>1
  <2> QED BY <2>1, <2>2 DEF CallOf
<1> QED BY <1>2, <1>3

\* What an event of each family makes its translator write.
ReportOfEvent(e) ==
  IF Family = "anthropic"
  THEN IF e.type = "message_delta" THEN Usage(memory.input, memory.cached, e.output)
       ELSE NoUsage
  ELSE IF e.type = "candidate" /\ e.finish THEN GeminiUsage(e)
  ELSE NoUsage

LEMMA WritesOfAnthropic ==
  ASSUME memory \in Memories, NEW e \in Events, Family = "anthropic",
         TranslateAnthropic(e)
  PROVE  /\ \E chunks : /\ Write(chunks)
                        /\ Writes(chunks, ReportOfEvent(e), e.type = "message_stop")
         /\ memory' \in Memories
         /\ IF e.type = "message_start"
            THEN memory'.input = e.input /\ memory'.cached = e.cached
            ELSE memory'.input = memory.input /\ memory'.cached = memory.cached
<1> DEFINE Goal(chunks) ==
      Write(chunks) /\ Writes(chunks, ReportOfEvent(e), e.type = "message_stop")
<1>2. ASSUME Write(<<>>), ReportOfEvent(e) = NoUsage, e.type # "message_stop"
      PROVE  \E chunks : Goal(chunks)
  <2>1. (e.type = "message_stop") = FALSE
    BY <1>2
  <2> QED BY <1>2, <2>1, WritesNothing
<1>3. ASSUME NEW text \in Nat, NEW call \in Int, NEW usage \in Usages,
             Write(<<Chunk(text, usage, call)>>),
             e.type # "message_stop", ReportOfEvent(e) = usage
      PROVE  \E chunks : Goal(chunks)
  <2>1. (e.type = "message_stop") = FALSE
    BY <1>3
  <2>2. Writes(<<Chunk(text, usage, call)>>, usage, FALSE)
    BY WritesChunk
  <2> QED BY <1>3, <2>1, <2>2
<1> HIDE DEF Goal
<1>4. /\ memory.next \in Nat /\ memory.input \in Nat /\ memory.cached \in Nat
      /\ e.index \in Nat /\ e.input \in Nat /\ e.cached \in Nat
      /\ e.text \in Nat /\ e.output \in Nat /\ NoCall \in Int
      /\ NoUsage \in Usages
  BY Constructors DEF Memories, Events, NoCall
<1>5. CASE e.type = "message_start"
  <2>1. MessageStart(e) /\ ReportOfEvent(e) = NoUsage
    BY <1>5 DEF TranslateAnthropic, ReportOfEvent
  <2>2. memory' \in Memories /\ memory'.input = e.input /\ memory'.cached = e.cached
    BY <1>4, <2>1 DEF MessageStart, Memories
  <2>3. \E chunks : Goal(chunks)
    BY <1>3, <1>4, <1>5, <2>1 DEF MessageStart
  <2> QED BY <1>5, <2>2, <2>3 DEF Goal
<1>6. CASE e.type = "content_block_start"
  <2>1. ContentBlockStart(e) /\ ReportOfEvent(e) = NoUsage
    BY <1>6 DEF TranslateAnthropic, ReportOfEvent
  <2>2. /\ memory' \in Memories
        /\ memory'.input = memory.input /\ memory'.cached = memory.cached
    <3>1. CASE e.tool
      <4>1. memory' = [memory EXCEPT !.calls = Append(@, e.index), !.next = @ + 1]
        BY <2>1, <3>1 DEF ContentBlockStart
      <4>2. Append(memory.calls, e.index) \in Seq(Nat)
        BY <1>4 DEF Memories
      <4>3. memory.next + 1 \in Nat
        BY <1>4
      <4> DEFINE calls == Append(memory.calls, e.index)
                 next  == memory.next + 1
      <4>4. memory' = [memory EXCEPT !.calls = calls, !.next = next]
        BY <4>1
      <4> HIDE DEF calls, next
      <4>5. calls \in Seq(Nat) /\ next \in Nat
        BY <4>2, <4>3 DEF calls, next
      <4> QED BY <4>4, <4>5 DEF Memories
    <3>2. CASE ~e.tool
      BY <2>1, <3>2 DEF ContentBlockStart, Keep
    <3> QED BY <3>1, <3>2
  <2>3. \E chunks : Goal(chunks)
    <3>1. CASE e.tool
      <4>1. Write(<<Chunk(0, NoUsage, memory.next)>>)
        BY <2>1, <3>1 DEF ContentBlockStart
      <4> QED BY <1>3, <1>4, <1>6, <2>1, <4>1
    <3>2. CASE ~e.tool
      <4>1. Write(<<>>)
        BY <2>1, <3>2 DEF ContentBlockStart
      <4> QED BY <1>2, <1>6, <2>1, <4>1
    <3> QED BY <3>1, <3>2
  <2> QED BY <1>6, <2>2, <2>3 DEF Goal
<1>7. CASE e.type = "content_block_delta"
  <2>1. ContentBlockDelta(e) /\ ReportOfEvent(e) = NoUsage
    BY <1>7 DEF TranslateAnthropic, ReportOfEvent
  <2>2. memory' = memory
    BY <2>1 DEF ContentBlockDelta, Keep
  <2>3. CallOf(e.index) \in Int
    BY CallOfType
  <2>4. \E chunks : Goal(chunks)
    BY <1>3, <1>4, <1>7, <2>1, <2>3 DEF ContentBlockDelta
  <2> QED BY <1>7, <2>2, <2>4 DEF Goal
<1>8. CASE e.type = "message_delta"
  <2> DEFINE usage == Usage(memory.input, memory.cached, e.output)
  <2>1. MessageDelta(e) /\ ReportOfEvent(e) = usage
    BY <1>8 DEF TranslateAnthropic, ReportOfEvent
  <2>2. memory' = memory
    BY <2>1 DEF MessageDelta, Keep
  <2>3. usage \in Usages
    BY <1>4, Constructors
  <2>4. Write(<<Chunk(0, usage, NoCall)>>)
    BY <2>1 DEF MessageDelta
  <2> HIDE DEF usage
  <2>5. \E chunks : Goal(chunks)
    BY <1>3, <1>4, <1>8, <2>1, <2>3, <2>4
  <2> QED BY <1>8, <2>2, <2>5 DEF Goal
<1>9. CASE e.type = "message_stop"
  <2>1. Keep /\ Write(<<Done>>) /\ ReportOfEvent(e) = NoUsage
    BY <1>9 DEF TranslateAnthropic, ReportOfEvent
  <2>2. \E chunks : Goal(chunks)
    <3>1. (e.type = "message_stop") = TRUE
      BY <1>9
    <3> QED BY <2>1, <3>1, WritesDone DEF Goal
  <2> QED BY <1>9, <2>1, <2>2 DEF Keep, Goal
<1>10. CASE e.type \notin {"message_start", "content_block_start",
                           "content_block_delta", "message_delta", "message_stop"}
  <2>1. Keep /\ Write(<<>>) /\ ReportOfEvent(e) = NoUsage
    BY <1>10 DEF TranslateAnthropic, ReportOfEvent
  <2>2. \E chunks : Goal(chunks)
    BY <1>2, <1>10, <2>1
  <2> QED BY <1>10, <2>1, <2>2 DEF Keep, Goal
<1> QED BY <1>5, <1>6, <1>7, <1>8, <1>9, <1>10

LEMMA WritesOfGemini ==
  ASSUME memory \in Memories, NEW e \in Events, Family = "gemini",
         TranslateGemini(e)
  PROVE  /\ \E chunks : Write(chunks) /\ Writes(chunks, ReportOfEvent(e), FALSE)
         /\ memory' \in Memories
<1>1. CASE e.type # "candidate"
  <2>1. Keep /\ Write(<<>>) /\ ReportOfEvent(e) = NoUsage
    BY <1>1 DEF TranslateGemini, ReportOfEvent
  <2> QED BY <2>1, WritesNothing DEF Keep
<1>2. CASE e.type = "candidate"
  <2> DEFINE role  == IF memory.role THEN <<>> ELSE <<Chunk(0, NoUsage, NoCall)>>
             part  == IF e.tool THEN <<Chunk(0, NoUsage, memory.next)>>
                      ELSE IF e.text > 0 THEN <<Chunk(e.text, NoUsage, NoCall)>>
                      ELSE <<>>
             usage == GeminiUsage(e)
             final == IF e.finish THEN <<Chunk(0, usage, NoCall)>> ELSE <<>>
  <2>1. /\ memory' = [memory EXCEPT !.role = TRUE,
                                    !.next = IF e.tool THEN @ + 1 ELSE @]
        /\ Write(role \o part \o final)
    BY <1>2 DEF TranslateGemini
  <2>2. /\ memory.next \in Nat /\ e.input \in Nat /\ e.output \in Nat
        /\ e.total \in Nat /\ e.text \in Nat /\ NoCall \in Int
    BY DEF Memories, Events, NoCall
  <2>3. usage \in Usages
    BY <2>2 DEF GeminiUsage, NoUsage, Usages
  <2>4. NoUsage \in Usages
    BY Constructors
  <2>5. Writes(role, NoUsage, FALSE)
    <3>1. Writes(<<Chunk(0, NoUsage, NoCall)>>, NoUsage, FALSE)
      BY <2>2, <2>4, WritesChunk
    <3> QED BY <3>1, WritesNothing
  <2>6. Writes(part, NoUsage, FALSE)
    <3>1. PICK next \in Int : next = memory.next
      BY <2>2
    <3>2. Writes(<<Chunk(0, NoUsage, next)>>, NoUsage, FALSE)
      BY <2>4, 0 \in Nat, WritesChunk
    <3>3. PICK text \in Nat : text = e.text
      BY <2>2
    <3>4. Writes(<<Chunk(text, NoUsage, NoCall)>>, NoUsage, FALSE)
      BY <2>2, <2>4, WritesChunk
    <3> QED BY <3>1, <3>2, <3>3, <3>4, WritesNothing
  <2>7. Writes(final, ReportOfEvent(e), FALSE)
    <3>1. ReportOfEvent(e) = IF e.finish THEN usage ELSE NoUsage
      BY <1>2 DEF ReportOfEvent
    <3> HIDE DEF usage
    <3>2. Writes(<<Chunk(0, usage, NoCall)>>, usage, FALSE)
      BY <2>2, <2>3, WritesChunk
    <3> QED BY <3>1, <3>2, WritesNothing
  <2>8. memory' \in Memories
    <3>1. memory.next + 1 \in Nat
      BY <2>2
    <3> QED BY <2>1, <2>2, <3>1 DEF Memories
  <2> HIDE DEF role, part, final
  <2>9. Writes(role \o part, NoUsage, FALSE)
    BY <2>5, <2>6, WritesMore
  <2>10. Writes((role \o part) \o final, ReportOfEvent(e), FALSE)
    BY <2>7, <2>9, WritesMore
  <2> QED BY <2>1, <2>8, <2>10
<1> QED BY <1>1, <1>2

\* What a translator that is not at the end of its pipe makes of the next event.
LEMMA Translated ==
  ASSUME TypeInv, Translate
  PROVE  /\ Answer[taken + 1] \in Events /\ Answer[taken + 1].type # "oversized"
         /\ memory' \in Memories
         /\ taken + 1 \in 1..sent /\ taken' = taken + 1
         /\ \E chunks, ends :
              /\ Write(chunks)
              /\ Writes(chunks, ReportOfEvent(Answer[taken + 1]), ends)
              /\ ends => EndsBill(taken + 1)
              /\ EndsBill(taken + 1) => ends
         /\ Family = "anthropic" =>
              IF Answer[taken + 1].type = "message_start"
              THEN /\ memory'.input = Answer[taken + 1].input
                   /\ memory'.cached = Answer[taken + 1].cached
              ELSE memory'.input = memory.input /\ memory'.cached = memory.cached
<1> DEFINE e == Answer[taken + 1]
<1>1. /\ e.type # "oversized"
      /\ IF Family = "anthropic" THEN TranslateAnthropic(e) ELSE TranslateGemini(e)
      /\ taken' = taken + 1
  BY DEF Translate
<1>2. /\ Family \in {"anthropic", "gemini"} /\ ~Native
      /\ taken \in Nat /\ taken + 1 \in 1..sent /\ taken + 1 \in 1..Len(Answer)
  <2>1. ~Native /\ Family \in {"anthropic", "gemini"} /\ Len(Answer) \in Nat
    BY AnswerType DEF Translate, TypeInv
  <2>2. sent \in 0..Len(Answer) /\ taken \in 0..sent /\ taken < sent
    BY DEF Translate, TypeInv, TypeOK
  <2> QED BY <2>1, <2>2
<1>3. e \in Events /\ memory \in Memories
  BY <1>2, AnswerType DEF TypeInv
<1>4. CASE Family = "anthropic"
  <2>1. EndsBill(taken + 1) <=> e.type = "message_stop"
    BY <1>2, <1>4 DEF EndsBill
  <2> HIDE DEF e
  <2>2. TranslateAnthropic(e)
    BY <1>1, <1>4
  <2>3. /\ \E chunks : /\ Write(chunks)
                       /\ Writes(chunks, ReportOfEvent(e), e.type = "message_stop")
        /\ memory' \in Memories
        /\ IF e.type = "message_start"
           THEN memory'.input = e.input /\ memory'.cached = e.cached
           ELSE memory'.input = memory.input /\ memory'.cached = memory.cached
    BY <1>3, <1>4, <2>2, WritesOfAnthropic
  <2> QED BY <1>1, <1>2, <1>3, <2>1, <2>3 DEF e
<1>5. CASE Family = "gemini"
  <2>1. ~EndsBill(taken + 1)
    BY <1>2, <1>5 DEF EndsBill
  <2> HIDE DEF e
  <2>2. TranslateGemini(e)
    BY <1>1, <1>5
  <2>3. /\ \E chunks : Write(chunks) /\ Writes(chunks, ReportOfEvent(e), FALSE)
        /\ memory' \in Memories
    BY <1>3, <1>5, <2>2, WritesOfGemini
  <2> QED BY <1>1, <1>2, <1>3, <1>5, <2>1, <2>3 DEF e
<1> QED BY <1>2, <1>4, <1>5

LEMMA FinishType ==
  ASSUME TypeInv, Finish
  PROVE  /\ bill' \in [usage : Usages, estimated : BOOLEAN]
         /\ bill' # NoBill
         /\ bill' = IF bill = NoBill THEN Account(meter) ELSE bill
<1>1. Account(meter) \in [usage : Usages, estimated : BOOLEAN]
      /\ Account(meter) # NoBill
  BY AccountType DEF TypeInv, Meters
<1> QED BY <1>1 DEF Finish, TypeInv, TypeOK

LEMMA InspectType ==
  ASSUME TypeInv, NEW piece \in Chunks, Inspect(piece)
  PROVE  /\ reading' = reading + 1 /\ reading' \in 0..MaxRead
         /\ meter' \in Meters /\ meter'.buffered <= meter.buffered + 1
         /\ bill' \in [usage : Usages, estimated : BOOLEAN]
         /\ seen' \in Seq(Chunks)
<1>1. /\ reading \in 0..MaxRead /\ MaxRead \in Nat /\ meter \in Meters
      /\ meter.buffered \in Nat
      /\ bill \in [usage : Usages, estimated : BOOLEAN] /\ seen \in Seq(Chunks)
  BY SizeAssumption DEF TypeInv, TypeOK, Meters
<1>2. reading' = reading + 1 /\ reading' \in 0..MaxRead
  BY <1>1 DEF Inspect
<1>3. seen' \in Seq(Chunks)
  BY <1>1, AppendPiece DEF Inspect
<1>4. piece.usage \in Usages /\ piece.text \in Nat
  BY DEF Chunks
<1>5. CASE ~piece.last
  <2>1. meter' = [meter EXCEPT !.buffered = @ + 1] /\ bill' = bill
    BY <1>5 DEF Inspect
  <2>2. meter.buffered + 1 \in Nat
    BY <1>1
  <2>3. meter' \in Meters /\ meter'.buffered = meter.buffered + 1
    BY <1>1, <2>1, <2>2 DEF Meters
  <2> QED BY <1>1, <1>2, <1>3, <2>1, <2>2, <2>3
<1>6. CASE piece.last /\ meter.overflowed
  <2>1. /\ meter' = [meter EXCEPT !.buffered = 0, !.overflowed = FALSE]
        /\ bill' = bill
    BY <1>6 DEF Inspect, EndLine
  <2>2. meter' \in Meters /\ meter'.buffered = 0
    BY <1>1, <2>1 DEF Meters
  <2> QED BY <1>1, <1>2, <1>3, <2>1, <2>2
<1>7. CASE piece.last /\ ~meter.overflowed /\ piece.done
  <2>1. meter' = [meter EXCEPT !.buffered = 0] /\ Finish
    BY <1>7 DEF Inspect, EndLine, ProcessLine
  <2>2. meter' \in Meters /\ meter'.buffered = 0
    BY <1>1, <2>1 DEF Meters
  <2> QED BY <1>1, <1>2, <1>3, <2>1, <2>2, FinishType
<1>8. CASE piece.last /\ ~meter.overflowed /\ ~piece.done
  <2>1. /\ meter' = [meter EXCEPT
              !.buffered = 0,
              !.usage    = IF piece.usage.total > 0 THEN piece.usage ELSE @,
              !.text     = @ + piece.text]
        /\ bill' = bill
    BY <1>8 DEF Inspect, EndLine, ProcessLine
  <2>2. meter.text + piece.text \in Nat
    BY <1>1, <1>4 DEF Meters
  <2>3. meter' \in Meters /\ meter'.buffered = 0
    BY <1>1, <1>4, <2>1, <2>2 DEF Meters
  <2> QED BY <1>1, <1>2, <1>3, <2>1, <2>3
<1> QED BY <1>5, <1>6, <1>7, <1>8

LEMMA InitTypeInv == Init => TypeInv
<1> SUFFICES ASSUME Init PROVE TypeInv
  OBVIOUS
<1>1. Len(Answer) \in Nat
  BY AnswerType DEF Init
<1>2. memory \in Memories
  BY DEF Init, Memories
<1>3. meter \in Meters /\ meter.usage \in Usages /\ meter.buffered = 0
      /\ meter.overflowed = FALSE /\ meter.text = 0
  BY Constructors DEF Init, Meters
<1>4. bill \in [usage : Usages, estimated : BOOLEAN]
  BY Constructors DEF Init, NoBill
<1>5. TypeOK
  <2>1. sent \in 0..Len(Answer) /\ taken \in 0..sent /\ reading \in 0..MaxRead
    BY <1>1, SizeAssumption DEF Init
  <2>2. meter.buffered \in 0..(MaxLine + reading)
    BY <1>3, SizeAssumption DEF Init
  <2>3. meter.usage \in Usages /\ meter.text \in Nat /\ meter.overflowed \in BOOLEAN
    BY Constructors DEF Init
  <2> QED BY <1>4, <2>1, <2>2, <2>3 DEF Init, TypeOK
<1>6. out = <<>> /\ seen = <<>> /\ (Native <=> translator = "none")
  BY DEF Init
<1>7. stream \in [answer : Scripts, handler : Handlers]
  BY DEF Init
<1> QED BY <1>2, <1>3, <1>5, <1>6, <1>7 DEF TypeInv

\* A step that leaves the type of the meter and its neighbours to its own lemma.
LEMMA TypeInvStep ==
  ASSUME TypeInv, [Next]_vars
  PROVE  TypeInv'
<1>1. stream' = stream /\ (Native' <=> Native) /\ Answer' = Answer
  <2>1. stream' = stream
    BY DEF Next, vars, provider, Send, End, Break, Cancel, Cut, Leave, Translate,
           TranslatorEnds, Read, ReadReturns, ReadEnds, Close, Save, SaveFails,
           Exit, Idle
  <2> QED BY <2>1, SameStream
<1>2. /\ Len(Answer) \in Nat
      /\ sent \in 0..Len(Answer) /\ taken \in 0..sent
      /\ upstream \in {"open", "ended", "cut"}
      /\ upstream = "ended" => sent = Len(Answer)
      /\ translator \in {"none", "scan", "done"}
      /\ handler \in {"read", "close", "returned", "killed"}
      /\ record \in {"none", "saved", "lost"}
      /\ reading \in 0..MaxRead /\ MaxLine \in Nat /\ MaxRead \in Nat
      /\ meter \in Meters /\ meter.buffered \in 0..(MaxLine + reading)
      /\ bill \in [usage : Usages, estimated : BOOLEAN]
      /\ bodyClosed \in BOOLEAN /\ gone \in BOOLEAN
      /\ stream \in [answer : Scripts, handler : Handlers]
      /\ memory \in Memories
      /\ out \in Seq(Chunks) /\ seen \in Seq(Chunks)
      /\ Native <=> translator = "none"
      /\ Native => out = <<>>
      /\ \A i \in DOMAIN out : out[i].last
  BY AnswerType, SizeAssumption DEF TypeInv, TypeOK
<1> DEFINE Numbers == /\ sent' \in 0..Len(Answer) /\ taken' \in 0..sent'
                      /\ upstream' \in {"open", "ended", "cut"}
                      /\ upstream' = "ended" => sent' = Len(Answer)
           Meter   == /\ reading' \in 0..MaxRead /\ meter' \in Meters
                      /\ meter'.buffered \in 0..(MaxLine + reading')
                      /\ bill' \in [usage : Usages, estimated : BOOLEAN]
                      /\ seen' \in Seq(Chunks)
           Pipe    == /\ translator' \in {"none", "scan", "done"}
                      /\ memory' \in Memories /\ out' \in Seq(Chunks)
                      /\ Native <=> translator' = "none"
                      /\ Native => out' = <<>>
                      /\ \A i \in DOMAIN out' : out'[i].last
           Handler == /\ handler' \in {"read", "close", "returned", "killed"}
                      /\ record' \in {"none", "saved", "lost"}
                      /\ bodyClosed' \in BOOLEAN /\ gone' \in BOOLEAN
<1>3. ASSUME Numbers, Meter, Pipe, Handler
      PROVE  TypeInv'
  <2>1. /\ meter'.usage \in Usages /\ meter'.text \in Nat
        /\ meter'.overflowed \in BOOLEAN
    BY <1>3 DEF Meters
  <2>2. TypeOK'
    BY <1>1, <1>3, <2>1 DEF TypeOK
  <2> QED BY <1>1, <1>2, <1>3, <2>2 DEF TypeInv
<1>4. UNCHANGED <<sent, taken, upstream>> => Numbers
  BY <1>2
<1>5. UNCHANGED <<reading, meter, bill, seen>> => Meter
  BY <1>2
<1>6. UNCHANGED <<translator, memory, out>> => Pipe
  BY <1>2
<1>7. UNCHANGED <<handler, record, bodyClosed, gone>> => Handler
  BY <1>2
<1> HIDE DEF Meter, Pipe, Handler
<1>8. CASE Send
  <2>1. Numbers
    BY <1>2, <1>8 DEF Send
  <2> QED BY <1>3, <1>5, <1>6, <1>7, <1>8, <2>1 DEF Send
<1>9. CASE End
  <2>1. Numbers
    BY <1>2, <1>9 DEF End
  <2> QED BY <1>3, <1>5, <1>6, <1>7, <1>9, <2>1 DEF End
<1>10. CASE Break \/ Cancel
  <2>1. Numbers
    BY <1>2, <1>10 DEF Break, Cancel, Cut
  <2> QED BY <1>3, <1>5, <1>6, <1>7, <1>10, <2>1 DEF Break, Cancel, Cut
<1>11. CASE Leave
  <2>1. Handler
    BY <1>2, <1>11 DEF Leave, Handler
  <2> QED BY <1>3, <1>4, <1>5, <1>6, <1>11, <2>1 DEF Leave, provider
<1>12. CASE Translate
  <2>1. Numbers
    BY <1>2, <1>12 DEF Translate
  <2>2. Pipe
    <3>1. PICK chunks, ends : /\ Write(chunks)
                              /\ Writes(chunks, ReportOfEvent(Answer[taken + 1]), ends)
      BY <1>12, Translated
    <3>2. /\ out' = <<>> \/ out' = chunks
          /\ chunks \in Seq(Chunks) /\ \A i \in DOMAIN chunks : chunks[i].last
      BY <3>1 DEF Write, Writes
    <3>3. memory' \in Memories /\ translator' = translator /\ translator = "scan"
      BY <1>12, Translated DEF Translate
    <3>4. out' \in Seq(Chunks) /\ \A i \in DOMAIN out' : out'[i].last
      <4>1. CASE out' = chunks
        BY <3>2, <4>1
      <4>2. CASE out' = <<>>
        BY <4>2
      <4> QED BY <3>2, <4>1, <4>2
    <3> QED BY <1>2, <3>3, <3>4 DEF Pipe
  <2> QED BY <1>3, <1>5, <1>7, <1>12, <2>1, <2>2 DEF Translate
<1>13. CASE TranslatorEnds
  <2>1. Pipe
    <3>1. out' = <<>> \/ out' = <<Done>>
      BY <1>13 DEF TranslatorEnds, Write
    <3>2. <<Done>> \in Seq(Chunks) /\ \A i \in DOMAIN <<Done>> : <<Done>>[i].last
      BY WritesDone DEF Writes
    <3>3. memory' = memory /\ translator' = "done" /\ translator = "scan"
      BY <1>13 DEF TranslatorEnds, Keep
    <3>4. out' \in Seq(Chunks) /\ \A i \in DOMAIN out' : out'[i].last
      <4>1. CASE out' = <<Done>>
        BY <3>2, <4>1
      <4>2. CASE out' = <<>>
        BY <4>2
      <4> QED BY <3>1, <4>1, <4>2
    <3> QED BY <1>2, <3>3, <3>4 DEF Pipe
  <2>2. Handler
    BY <1>2, <1>13 DEF TranslatorEnds, Handler
  <2> QED BY <1>3, <1>4, <1>5, <1>13, <2>1, <2>2 DEF TranslatorEnds, provider
<1>14. CASE Read
  <2>1. ASSUME NEW piece \in Chunks, Inspect(piece) PROVE Meter
    <3>1. /\ reading' = reading + 1 /\ reading' \in 0..MaxRead
          /\ meter' \in Meters /\ meter'.buffered <= meter.buffered + 1
          /\ bill' \in [usage : Usages, estimated : BOOLEAN]
          /\ seen' \in Seq(Chunks)
      BY <2>1, InspectType
    <3>2. meter'.buffered \in Nat
      BY <3>1 DEF Meters
    <3> QED BY <1>2, <3>1, <3>2 DEF Meter
  <2>2. CASE Native
    <3>1. taken < sent /\ taken' = taken + 1 /\ out' = out /\ Inspect(Answer[taken + 1])
      BY <1>14, <2>2 DEF Read
    <3>2. Answer[taken + 1] \in Chunks
      <4>1. taken + 1 \in 1..Len(Answer)
        BY <1>2, <3>1
      <4> QED BY <1>2, <2>2, <4>1, AnswerType
    <3>3. Numbers
      BY <1>2, <1>14, <3>1 DEF Read
    <3> QED BY <1>3, <1>6, <1>7, <1>14, <2>1, <3>1, <3>2, <3>3 DEF Read
  <2>3. CASE ~Native
    <3>1. out # <<>> /\ Inspect(Head(out)) /\ out' = Tail(out) /\ taken' = taken
      BY <1>14, <2>3 DEF Read
    <3>2. Head(out) \in Chunks
      BY <1>2, <3>1
    <3>3. /\ Tail(out) \in Seq(Chunks)
          /\ \A i \in DOMAIN Tail(out) : Tail(out)[i] = out[i + 1] /\ i + 1 \in DOMAIN out
      BY <1>2, <3>1
    <3>4. Pipe
      BY <1>2, <1>14, <2>3, <3>1, <3>3 DEF Read, Pipe
    <3>5. Meter
      BY <2>1, <3>1, <3>2
    <3> QED BY <1>3, <1>4, <1>7, <1>14, <3>1, <3>4, <3>5 DEF Read
  <2> QED BY <2>2, <2>3
<1>15. CASE ReadReturns
  <2>1. Meter
    <3>1. reading' = 0 /\ bill' = bill /\ seen' = seen
      BY <1>15 DEF ReadReturns
    <3>2. CASE meter.buffered > MaxLine
      <4>1. meter' = [meter EXCEPT !.buffered = 0, !.overflowed = TRUE]
        BY <1>15, <3>2 DEF ReadReturns, Cap
      <4>2. meter' \in Meters /\ meter'.buffered = 0
        BY <1>2, <4>1 DEF Meters
      <4> QED BY <1>2, <3>1, <4>2 DEF Meter
    <3>3. CASE ~(meter.buffered > MaxLine)
      <4>1. meter' = meter
        BY <1>15, <3>3 DEF ReadReturns, Cap
      <4> QED BY <1>2, <3>1, <3>3, <4>1 DEF Meter
    <3> QED BY <3>2, <3>3
  <2>2. Handler
    BY <1>2, <1>15 DEF ReadReturns, Handler
  <2> QED BY <1>3, <1>4, <1>6, <1>15, <2>1, <2>2 DEF ReadReturns, provider
<1>16. CASE ReadEnds
  <2>1. Meter
    BY <1>2, <1>16, FinishType DEF ReadEnds, Meter
  <2>2. Handler
    BY <1>2, <1>16 DEF ReadEnds, Handler
  <2> QED BY <1>3, <1>4, <1>6, <1>16, <2>1, <2>2 DEF ReadEnds, provider
<1>17. CASE Close
  <2>1. Meter
    BY <1>2, <1>17, FinishType DEF Close, Meter
  <2>2. Handler
    BY <1>2, <1>17 DEF Close, Handler, Native
  <2>3. Pipe
    BY <1>2, <1>17 DEF Close, Pipe
  <2> QED BY <1>3, <1>4, <1>17, <2>1, <2>2, <2>3 DEF Close, provider
<1>18. CASE Save \/ SaveFails
  <2>1. Handler
    BY <1>2, <1>18 DEF Save, SaveFails, Handler
  <2> QED BY <1>3, <1>4, <1>5, <1>6, <1>18, <2>1 DEF Save, SaveFails, provider
<1>19. CASE Exit
  <2>1. Numbers
    BY <1>2, <1>19 DEF Exit
  <2>2. Pipe
    BY <1>2, <1>19 DEF Exit, Pipe
  <2>3. Handler
    BY <1>2, <1>19 DEF Exit, Handler
  <2> QED BY <1>3, <1>5, <1>19, <2>1, <2>2, <2>3 DEF Exit
<1>20. CASE UNCHANGED vars
  BY <1>3, <1>4, <1>5, <1>6, <1>7, <1>20 DEF vars, provider
<1> QED BY <1>8, <1>9, <1>10, <1>11, <1>12, <1>13, <1>14, <1>15, <1>16, <1>17,
           <1>18, <1>19, <1>20 DEF Next, Idle

\* Stream.TypeOK holds in every reachable state, for every set of answers and
\* every size of the meter's line buffer and of the handler's.
THEOREM TypeCorrect == Spec => []TypeOK
<1>1. Init => TypeInv
  BY InitTypeInv
<1>2. TypeInv /\ [Next]_vars => TypeInv'
  BY TypeInvStep
<1>3. TypeInv => TypeOK
  BY DEF TypeInv
<1> QED BY <1>1, <1>2, <1>3, PTL DEF Spec

-----------------------------------------------------------------------------
(* The bill is that of the lines that were delivered *)

\* What is buffered, or was given up on, came after every line that ended.
Buffered ==
  bill = NoBill =>
    \A j \in 0..Len(seen) :
      (j = 0 \/ seen[j].last) =>
        /\ meter.buffered <= Len(seen) - j
        /\ meter.overflowed => Len(seen) - j > MaxLine

\* These lines are all that the pieces hold, long ones apart.
Counts(pieces, lines) ==
  /\ lines \subseteq Lines(pieces)
  /\ \A i \in Lines(pieces) \ lines : ~Short(pieces, i)

\* They are what the meter has counted.
Metered ==
  bill = NoBill =>
    \E lines \in SUBSET Lines(seen) :
      /\ Counts(seen, lines)
      /\ \A i \in lines : ~seen[i].done
      /\ meter.usage = UsageIn(seen, lines)
      /\ meter.text = TextIn(seen, lines)

DeliveredInv == Buffered /\ Metered /\ BilledAsDelivered

LEMMA InitDeliveredInv == Init => DeliveredInv
<1> SUFFICES ASSUME Init PROVE DeliveredInv
  OBVIOUS
<1>1. /\ seen = <<>> /\ Len(seen) = 0 /\ DOMAIN seen = {}
      /\ meter.buffered = 0 /\ meter.overflowed = FALSE
      /\ meter.usage = NoUsage /\ meter.text = 0 /\ bill = NoBill
  BY DEF Init
<1>2. Buffered
  BY <1>1 DEF Buffered
<1>3. Lines(seen) = {}
  BY <1>1 DEF Lines
<1>4. UsageIn(seen, {}) = NoUsage
  BY DEF UsageIn
<1>5. TextIn(seen, {}) = 0
  <2>1. [i \in DOMAIN seen |-> IF i \in {} THEN seen[i].text ELSE 0] = <<>>
    BY <1>1
  <2> QED BY <2>1, SumEmpty DEF TextIn
<1>6. Metered
  BY <1>1, <1>3, <1>4, <1>5 DEF Metered, Counts
<1>7. BilledAsDelivered
  BY <1>1 DEF BilledAsDelivered
<1> QED BY <1>2, <1>6, <1>7 DEF DeliveredInv

\* finish bills what the meter has counted.
LEMMA BillsDelivered ==
  ASSUME TypeInv, seen' \in Seq(Chunks), NEW lines,
         Counts(seen', lines),
         \A i \in lines : seen'[i].done => i = Len(seen'),
         meter.usage = UsageIn(seen', lines), meter.text = TextIn(seen', lines),
         bill' = Account(meter)
  PROVE  BilledAsDelivered'
<1> DEFINE missed == Lines(seen') \ lines
           usage  == UsageIn(seen', lines)
<1>1. /\ missed \in SUBSET {i \in Lines(seen') : ~Short(seen', i)}
      /\ Lines(seen') \ missed = lines
  BY DEF Counts
<1>2. meter.usage \in Usages
  BY DEF TypeInv, TypeOK
<1>3. usage # NoUsage => usage.total > 0
  <2>1. lines \in SUBSET (1..Len(seen'))
    BY DEF Counts, Lines
  <2> QED BY <2>1, UsageInType
<1>4. IF usage # NoUsage
      THEN /\ ~bill'.estimated
           /\ bill'.usage.completion = usage.completion
           /\ bill'.usage.prompt = usage.prompt \/ usage.prompt = 0
      ELSE /\ bill'.estimated
           /\ bill'.usage.prompt = PromptEstimate + VisionEstimate
           /\ bill'.usage.completion = TextIn(seen', lines) \div 4
  <2>1. CASE usage # NoUsage
    BY <1>2, <1>3, <2>1, AccountOfReport
  <2>2. CASE usage = NoUsage
    BY <2>2, AccountOfText
  <2> QED BY <2>1, <2>2
<1> HIDE DEF missed
<1> QED BY <1>1, <1>4 DEF BilledAsDelivered

LEMMA SameDelivery ==
  ASSUME DeliveredInv, UNCHANGED <<bill, seen, meter>>
  PROVE  DeliveredInv'
BY DEF DeliveredInv, Buffered, Metered, BilledAsDelivered

\* Once the bill is made, it and what it is for stay.
LEMMA BillStays ==
  ASSUME BilledAsDelivered, bill # NoBill, bill' = bill, seen' = seen
  PROVE  DeliveredInv'
BY DEF DeliveredInv, Buffered, Metered, BilledAsDelivered

LEMMA FinishDelivered ==
  ASSUME TypeInv, DeliveredInv, Finish, seen' = seen
  PROVE  DeliveredInv'
<1>1. CASE bill # NoBill
  BY <1>1, BillStays DEF Finish, DeliveredInv
<1>2. CASE bill = NoBill
  <2>1. bill' = Account(meter) /\ bill' # NoBill
    BY <1>2, FinishType
  <2>2. PICK lines \in SUBSET Lines(seen) :
          /\ Counts(seen, lines)
          /\ \A i \in lines : ~seen[i].done
          /\ meter.usage = UsageIn(seen, lines)
          /\ meter.text = TextIn(seen, lines)
    BY <1>2 DEF DeliveredInv, Metered
  <2>3. seen' \in Seq(Chunks)
    BY DEF TypeInv
  <2>4. BilledAsDelivered'
    BY <2>1, <2>2, <2>3, BillsDelivered
  <2> QED BY <2>1, <2>4 DEF DeliveredInv, Buffered, Metered
<1> QED BY <1>1, <1>2

\* A piece more: the old lines stay as they were, and a new one may be added.
LEMMA CountsMore ==
  ASSUME NEW pieces \in Seq(Chunks), NEW piece \in Chunks, NEW lines,
         Counts(pieces, lines)
  PROVE  LET n    == Len(pieces)
             more == Append(pieces, piece)
         IN /\ ~piece.last \/ ~Short(more, n + 1) => Counts(more, lines)
            /\ piece.last => Counts(more, lines \cup {n + 1})
<1> DEFINE n == Len(pieces)
           more == Append(pieces, piece)
<1>1. /\ n \in Nat /\ Lines(pieces) \subseteq 1..n
      /\ piece.last => Lines(more) = Lines(pieces) \cup {n + 1}
      /\ ~piece.last => Lines(more) = Lines(pieces)
      /\ \A i \in 1..n : Short(more, i) <=> Short(pieces, i)
  BY AppendLines
<1> HIDE DEF n, more
<1>2. ~piece.last \/ ~Short(more, n + 1) => Counts(more, lines)
  BY <1>1 DEF Counts
<1>3. piece.last => Counts(more, lines \cup {n + 1})
  BY <1>1 DEF Counts
<1> QED BY <1>2, <1>3 DEF n, more

LEMMA InspectDelivered ==
  ASSUME TypeInv, DeliveredInv, NEW piece \in Chunks, Inspect(piece)
  PROVE  DeliveredInv'
<1>1. CASE bill # NoBill
  <2>1. bill' = bill /\ seen' = seen
    BY <1>1 DEF Inspect, EndLine, ProcessLine, Finish
  <2> QED BY <1>1, <2>1, BillStays DEF DeliveredInv
<1>2. CASE bill = NoBill
  <2> DEFINE n == Len(seen)
  <2>1. /\ seen \in Seq(Chunks) /\ n \in Nat /\ seen' = Append(seen, piece)
        /\ meter \in Meters /\ MaxLine \in Nat
    BY <1>2, SizeAssumption DEF TypeInv, Inspect
  <2>2. /\ seen' \in Seq(Chunks) /\ Len(seen') = n + 1
        /\ \A i \in 1..n : seen'[i] = seen[i]
        /\ seen'[n + 1] = piece
    BY <2>1, AppendPiece
  <2>3. PICK lines \in SUBSET Lines(seen) :
          /\ Counts(seen, lines)
          /\ \A i \in lines : ~seen[i].done
          /\ meter.usage = UsageIn(seen, lines)
          /\ meter.text = TextIn(seen, lines)
    BY <1>2 DEF DeliveredInv, Metered
  <2>4. lines \in SUBSET (1..n)
    BY <2>1, AppendLines
  <2>5. /\ UsageIn(seen', lines) = meter.usage
        /\ UsageIn(seen', lines \cup {n + 1}) =
             IF piece.usage.total > 0 THEN piece.usage ELSE meter.usage
    BY <2>1, <2>3, <2>4, UsageInAppend
  <2>6. /\ TextIn(seen', lines) = meter.text
        /\ TextIn(seen', lines \cup {n + 1}) = meter.text + piece.text
    BY <2>1, <2>3, <2>4, TextInAppend
  <2>7. /\ ~piece.last \/ ~Short(seen', n + 1) => Counts(seen', lines)
        /\ piece.last => Counts(seen', lines \cup {n + 1})
    BY <2>1, <2>3, CountsMore
  <2>8. \A i \in lines : seen'[i] = seen[i] /\ ~seen'[i].done
    BY <2>2, <2>3, <2>4
  <2>9. \A j \in 0..n : (j = 0 \/ seen[j].last) =>
          /\ meter.buffered <= n - j
          /\ meter.overflowed => n - j > MaxLine
    BY <1>2 DEF DeliveredInv, Buffered
  <2>10. \A j \in 0..(n + 1) : \/ j = n + 1
                               \/ j \in 0..n /\ (j = 0 \/ seen'[j] = seen[j])
    BY <2>1, <2>2
  <2>11. meter.buffered \in Nat /\ meter.text \in Nat
    BY <2>1 DEF Meters
  <2> HIDE DEF n
  <2>12. CASE ~piece.last
    <3>1. meter' = [meter EXCEPT !.buffered = @ + 1] /\ bill' = bill
      BY <2>12 DEF Inspect
    <3>2. /\ meter'.buffered = meter.buffered + 1
          /\ meter'.overflowed = meter.overflowed
          /\ meter'.usage = meter.usage /\ meter'.text = meter.text
      BY <2>1, <3>1 DEF Meters
    <3>3. Buffered'
      BY <2>1, <2>2, <2>9, <2>10, <2>11, <2>12, <3>2 DEF Buffered
    <3>4. Metered'
      BY <2>5, <2>6, <2>7, <2>8, <2>12, <3>2 DEF Metered, Counts
    <3> QED BY <1>2, <3>1, <3>3, <3>4 DEF DeliveredInv, BilledAsDelivered
  <2>13. CASE piece.last /\ meter.overflowed
    <3>1. /\ meter' = [meter EXCEPT !.buffered = 0, !.overflowed = FALSE]
          /\ bill' = bill
      BY <2>13 DEF Inspect, EndLine
    <3>2. /\ meter'.buffered = 0 /\ ~meter'.overflowed
          /\ meter'.usage = meter.usage /\ meter'.text = meter.text
      BY <2>1, <3>1 DEF Meters
    <3>3. Buffered'
      BY <2>1, <2>2, <2>10, <3>2 DEF Buffered
    <3>4. ~Short(seen', n + 1)
      <4>1. \A j \in 0..n : j = 0 \/ seen'[j].last => n - j > MaxLine
        <5> SUFFICES ASSUME NEW j \in 0..n, j = 0 \/ seen'[j].last
                     PROVE  n - j > MaxLine
          OBVIOUS
        <5>1. j \in 0..(n + 1) /\ j # n + 1
          BY <2>1
        <5>2. j = 0 \/ seen[j].last
          BY <2>10, <5>1
        <5> QED BY <2>9, <2>13, <5>2
      <4>2. \A j \in 0..n : n - j > MaxLine => ~((n + 1) - j <= MaxLine)
        BY <2>1
      <4>3. (n + 1) - 1 = n
        BY <2>1
      <4> QED BY <4>1, <4>2, <4>3 DEF Short
    <3>5. Metered'
      BY <2>5, <2>6, <2>7, <2>8, <3>2, <3>4 DEF Metered, Counts
    <3> QED BY <1>2, <3>1, <3>3, <3>5 DEF DeliveredInv, BilledAsDelivered
  <2>14. CASE piece.last /\ ~meter.overflowed /\ piece.done
    <3>1. Finish
      BY <2>14 DEF Inspect, EndLine, ProcessLine
    <3>2. bill' = Account(meter) /\ bill' # NoBill
      BY <1>2, <3>1, FinishType
    <3>3. piece.usage = NoUsage /\ piece.text = 0
      BY <2>14 DEF Chunks, Done
    <3>4. /\ meter.usage = UsageIn(seen', lines \cup {n + 1})
          /\ meter.text = TextIn(seen', lines \cup {n + 1})
      BY <2>5, <2>6, <2>11, <3>3, Constructors
    <3>5. \A i \in lines \cup {n + 1} : seen'[i].done => i = Len(seen')
      BY <2>2, <2>8
    <3>6. Counts(seen', lines \cup {n + 1})
      BY <2>7, <2>14
    <3>7. BilledAsDelivered'
      BY <2>2, <3>2, <3>4, <3>5, <3>6, BillsDelivered
    <3> QED BY <3>2, <3>7 DEF DeliveredInv, Buffered, Metered
  <2>15. CASE piece.last /\ ~meter.overflowed /\ ~piece.done
    <3>1. /\ meter' = [meter EXCEPT
                !.buffered = 0,
                !.usage    = IF piece.usage.total > 0 THEN piece.usage ELSE @,
                !.text     = @ + piece.text]
          /\ bill' = bill
      BY <2>15 DEF Inspect, EndLine, ProcessLine
    <3>2. /\ meter'.buffered = 0 /\ meter'.overflowed = meter.overflowed
          /\ meter'.usage = UsageIn(seen', lines \cup {n + 1})
          /\ meter'.text = TextIn(seen', lines \cup {n + 1})
      BY <2>1, <2>5, <2>6, <3>1 DEF Meters
    <3>3. Buffered'
      BY <2>1, <2>2, <2>10, <2>15, <3>2 DEF Buffered
    <3>4. Counts(seen', lines \cup {n + 1})
      BY <2>7, <2>15
    <3>5. \A i \in lines \cup {n + 1} : ~seen'[i].done
      BY <2>2, <2>8, <2>15
    <3>6. Metered'
      BY <3>2, <3>4, <3>5 DEF Metered, Counts
    <3> QED BY <1>2, <3>1, <3>3, <3>6 DEF DeliveredInv, BilledAsDelivered
  <2> QED BY <2>12, <2>13, <2>14, <2>15
<1> QED BY <1>1, <1>2

LEMMA DeliveredStep ==
  ASSUME TypeInv, DeliveredInv, [Next]_vars
  PROVE  DeliveredInv'
<1>1. CASE Read
  <2>1. \E piece \in Chunks : Inspect(piece)
    <3>1. CASE Native
      <4>1. Inspect(Answer[taken + 1]) /\ taken + 1 \in 1..Len(Answer)
        <5>1. taken < sent /\ Inspect(Answer[taken + 1])
          BY <1>1, <3>1 DEF Read
        <5>2. Len(Answer) \in Nat /\ sent \in 0..Len(Answer) /\ taken \in 0..sent
          BY AnswerType DEF TypeInv, TypeOK
        <5> QED BY <5>1, <5>2
      <4> QED BY <3>1, <4>1, AnswerType DEF TypeInv
    <3>2. CASE ~Native
      <4>1. out \in Seq(Chunks) /\ out # <<>> /\ Inspect(Head(out))
        BY <1>1, <3>2 DEF Read, TypeInv
      <4> QED BY <4>1
    <3> QED BY <3>1, <3>2
  <2> QED BY <2>1, InspectDelivered
<1>2. CASE ReadReturns
  <2>1. bill' = bill /\ seen' = seen
    BY <1>2 DEF ReadReturns
  <2>2. CASE meter.buffered > MaxLine
    <3>1. meter' = [meter EXCEPT !.buffered = 0, !.overflowed = TRUE]
      BY <1>2, <2>2 DEF ReadReturns, Cap
    <3>2. meter'.buffered = 0 /\ meter'.usage = meter.usage /\ meter'.text = meter.text
      BY <3>1 DEF TypeInv, Meters
    <3>3. Buffered'
      <4>1. ASSUME bill = NoBill, NEW j \in 0..Len(seen), j = 0 \/ seen[j].last
            PROVE  0 <= Len(seen) - j /\ Len(seen) - j > MaxLine
        <5>1. meter.buffered <= Len(seen) - j
          BY <4>1 DEF DeliveredInv, Buffered
        <5>2. Len(seen) \in Nat /\ MaxLine \in Nat /\ meter.buffered \in Nat
          BY SizeAssumption DEF TypeInv, Meters
        <5> QED BY <2>2, <5>1, <5>2
      <4> QED BY <2>1, <3>2, <4>1 DEF Buffered
    <3> QED BY <2>1, <3>2, <3>3 DEF DeliveredInv, Metered, BilledAsDelivered
  <2>3. CASE ~(meter.buffered > MaxLine)
    <3>1. meter' = meter
      BY <1>2, <2>3 DEF ReadReturns, Cap
    <3> QED BY <2>1, <3>1, SameDelivery
  <2> QED BY <2>2, <2>3
<1>3. CASE ReadEnds
  BY <1>3, FinishDelivered DEF ReadEnds
<1>4. CASE Close
  BY <1>4, FinishDelivered DEF Close
<1>5. CASE UNCHANGED <<bill, seen, meter>>
  BY <1>5, SameDelivery
<1> QED BY <1>1, <1>2, <1>3, <1>4, <1>5 DEF Next, vars, provider, Send, End, Break,
      Cancel, Cut, Leave, Translate, TranslatorEnds, Save, SaveFails, Exit, Idle

\* What Stream.BillSound says first, for every answer, in whatever pieces it is
\* read: the StreamMeter bills the lines that reached the client, long ones apart,
\* and nothing after the first [DONE].
THEOREM DeliveredIsBilled == Spec => []BilledAsDelivered
<1>1. Init => TypeInv /\ DeliveredInv
  BY InitTypeInv, InitDeliveredInv
<1>2. TypeInv /\ DeliveredInv /\ [Next]_vars => (TypeInv /\ DeliveredInv)'
  BY TypeInvStep, DeliveredStep
<1>3. DeliveredInv => BilledAsDelivered
  BY DEF DeliveredInv
<1> QED BY <1>1, <1>2, <1>3, PTL DEF Spec

-----------------------------------------------------------------------------
(* The bill is what the provider reported *)

Clean == upstream # "cut" /\ ~gone /\ Readable

\* How the handler, the translator and the meter follow the answer.
Followed ==
  /\ handler = "returned" => bill # NoBill
  /\ handler = "close" /\ ~gone => bill # NoBill
  /\ Family = "anthropic" => /\ memory.input = Started(taken).input
                             /\ memory.cached = Started(taken).cached
  /\ translator = "done" /\ Clean => taken = Len(Answer)
  /\ Native /\ bill = NoBill =>
       Len(seen) = taken /\ \A i \in 1..taken : seen[i] = Answer[i]
  /\ ~Native => meter.buffered = 0 /\ ~meter.overflowed

\* Until the bill is made, what was reported so far is in the meter or in the pipe
\* to it, and so is the end of the bill.
Expected ==
  Clean /\ bill = NoBill =>
    /\ \/ \E i \in DOMAIN out : out[i].usage.total > 0
       \/ meter.usage = ReportedUpTo(taken)
    /\ \A i \in DOMAIN out : out[i].usage.total > 0 =>
         out[i].usage = ReportedUpTo(taken)
    /\ \A i \in DOMAIN out : out[i].done =>
         /\ Reported = ReportedUpTo(taken)
         /\ \A k \in DOMAIN out : ~(out[k].usage.total > 0)
    /\ \A j \in 1..taken : EndsBill(j) => \E i \in DOMAIN out : out[i].done

ReportedInv == Followed /\ Expected /\ BilledAsReported

LEMMA InitReportedInv == Init => ReportedInv
<1> SUFFICES ASSUME Init PROVE ReportedInv
  OBVIOUS
<1>1. /\ handler = "read" /\ bill = NoBill /\ taken = 0 /\ out = <<>> /\ seen = <<>>
      /\ memory.input = 0 /\ memory.cached = 0 /\ translator # "done"
      /\ meter.usage = NoUsage /\ meter.buffered = 0 /\ ~meter.overflowed
  BY DEF Init
<1>2. Followed
  BY <1>1, StartedNone DEF Followed
<1>3. Expected
  BY <1>1, ReportsNone DEF Expected
<1>4. BilledAsReported
  BY <1>1 DEF BilledAsReported
<1> QED BY <1>2, <1>3, <1>4 DEF ReportedInv

\* What was reported up to the event that has been taken.
LEMMA SameReports ==
  ASSUME stream' = stream, NEW n, taken' = n
  PROVE  ReportedUpTo(taken)' = ReportedUpTo(n) /\ Started(taken)' = Started(n)
<1>1. /\ Answer' = Answer /\ Family' = Family /\ Native' = Native
      /\ \A i : EndsBill(i)' = EndsBill(i)
      /\ \A i : Report(i)' = Report(i)
  BY SameStream
<1>2. Reports(taken)' = Reports(n)
  BY <1>1 DEF Reports
<1>3. ReportedUpTo(taken)' = ReportedUpTo(n)
  BY <1>1, <1>2 DEF ReportedUpTo
<1>4. Started(taken)' = Started(n)
  BY <1>1 DEF Started
<1> QED BY <1>3, <1>4

LEMMA BillsReported ==
  ASSUME TypeInv, stream' = stream, bill' = Account(meter), meter.usage = Reported
  PROVE  BilledAsReported'
<1>1. meter.usage \in Usages
  BY DEF TypeInv, TypeOK
<1>2. Reported # NoUsage => Reported.total > 0
  <2>1. Len(Answer) \in Nat
    BY AnswerType DEF TypeInv
  <2> QED BY <2>1, ReportedIsUsage DEF Reported
<1>3. Reported # NoUsage =>
        /\ bill'.usage.completion = Reported.completion
        /\ Reported.prompt > 0 => bill'.usage = Reported
  BY <1>1, <1>2, AccountOfReport
<1>4. Reported' = Reported
  BY SameStream
<1> QED BY <1>3, <1>4 DEF BilledAsReported

LEMMA ReportedBillStays ==
  ASSUME BilledAsReported, bill # NoBill, bill' = bill, stream' = stream,
         UNCHANGED <<upstream, gone>>
  PROVE  BilledAsReported'
<1>1. Reported' = Reported /\ Readable' = Readable
  BY SameStream
<1> QED BY <1>1 DEF BilledAsReported

\* A step of the provider, of the client, or of the goroutine that saves.
LEMMA OthersReported ==
  ASSUME ReportedInv, stream' = stream,
         UNCHANGED <<taken, translator, memory, out, meter, bill, handler, seen>>,
         upstream' # "cut" => upstream # "cut", ~gone' => ~gone
  PROVE  ReportedInv'
<1>1. /\ Answer' = Answer /\ Family' = Family /\ Native' = Native
      /\ Reported' = Reported /\ Readable' = Readable
      /\ \A i : EndsBill(i)' = EndsBill(i)
  BY SameStream
<1>2. ReportedUpTo(taken)' = ReportedUpTo(taken) /\ Started(taken)' = Started(taken)
  BY SameReports
<1>3. Clean' => Clean
  BY <1>1 DEF Clean
<1>4. Followed'
  BY <1>1, <1>2, <1>3 DEF ReportedInv, Followed
<1>5. Expected'
  BY <1>1, <1>2, <1>3 DEF ReportedInv, Expected
<1>6. BilledAsReported'
  BY <1>1 DEF ReportedInv, BilledAsReported
<1> QED BY <1>4, <1>5, <1>6 DEF ReportedInv

\* The end of the process cuts the provider's answer off.
LEMMA ExitReported ==
  ASSUME ReportedInv, Exit
  PROVE  ReportedInv'
<1>1. /\ stream' = stream /\ upstream' = "cut" /\ handler' = "killed"
      /\ UNCHANGED <<taken, memory, meter, bill, seen>>
  BY DEF Exit
<1>2. /\ Answer' = Answer /\ Family' = Family /\ Native' = Native
      /\ Started(taken)' = Started(taken)
  BY <1>1, SameStream, SameReports
<1>3. ~Clean'
  BY <1>1 DEF Clean
<1>4. Followed'
  BY <1>1, <1>2, <1>3 DEF ReportedInv, Followed
<1>5. Expected' /\ BilledAsReported'
  BY <1>1, <1>3 DEF Expected, BilledAsReported
<1> QED BY <1>4, <1>5 DEF ReportedInv

LEMMA TranslateReported ==
  ASSUME TypeInv, ReportedInv, Translate
  PROVE  ReportedInv'
<1> DEFINE n == taken
           e == Answer[n + 1]
<1>1. /\ e \in Events /\ n + 1 \in 1..sent /\ taken' = n + 1
      /\ Family = "anthropic" =>
           IF e.type = "message_start"
           THEN memory'.input = e.input /\ memory'.cached = e.cached
           ELSE memory'.input = memory.input /\ memory'.cached = memory.cached
  BY Translated
<1>2. PICK chunks, ends : /\ Write(chunks) /\ Writes(chunks, ReportOfEvent(e), ends)
                          /\ ends => EndsBill(n + 1)
                          /\ EndsBill(n + 1) => ends
  BY Translated
<1>3. /\ stream' = stream
      /\ UNCHANGED <<sent, upstream, translator, meter, bill, handler, gone, seen>>
      /\ translator = "scan" /\ out = <<>>
  BY DEF Translate
<1>4. /\ Answer' = Answer /\ Family' = Family /\ Native' = Native
      /\ Reported' = Reported /\ Readable' = Readable
      /\ \A i : EndsBill(i)' = EndsBill(i)
      /\ ReportedUpTo(taken)' = ReportedUpTo(n + 1) /\ Started(taken)' = Started(n + 1)
  BY <1>1, <1>3, SameStream, SameReports
<1>5. /\ n \in Nat /\ Len(Answer) \in Nat /\ n + 1 <= Len(Answer)
      /\ ~Native /\ Family \in {"anthropic", "gemini"}
  <2>1. Len(Answer) \in Nat /\ ~Native /\ Family \in {"anthropic", "gemini"}
    BY <1>3, AnswerType DEF TypeInv
  <2>2. sent \in 0..Len(Answer) /\ taken \in 0..sent
    BY DEF TypeInv, TypeOK
  <2> QED BY <1>1, <2>1, <2>2
<1> HIDE DEF n, e
<1>6. Started(n + 1) = IF e.type = "message_start"
                       THEN [input |-> e.input, cached |-> e.cached]
                       ELSE Started(n)
  BY <1>5, StartedGrows DEF e
<1>7. Family = "anthropic" => /\ memory.input = Started(n).input
                              /\ memory.cached = Started(n).cached
  BY DEF ReportedInv, Followed, n
<1>8. Report(n + 1) = ReportOfEvent(e)
  <2>1. CASE Family = "anthropic"
    BY <1>6, <1>7, <2>1 DEF Report, ReportOfEvent, e
  <2>2. CASE Family = "gemini"
    BY <2>2 DEF Report, ReportOfEvent, e
  <2> QED BY <1>5, <2>1, <2>2
<1>9. Followed'
  BY <1>1, <1>3, <1>4, <1>5, <1>6, <1>7 DEF ReportedInv, Followed
<1>10. Expected'
  <2> SUFFICES ASSUME Clean', bill' = NoBill
               PROVE  Expected'
    BY DEF Expected
  <2>1. Clean /\ bill = NoBill /\ handler # "returned"
    BY <1>3, <1>4 DEF Clean, ReportedInv, Followed
  <2>2. out' = chunks
    BY <1>2, <2>1 DEF Write
  <2>3. meter.usage = ReportedUpTo(n) /\ \A j \in 1..n : ~EndsBill(j)
    BY <1>3, <2>1 DEF ReportedInv, Expected, n
  <2>4. ReportedUpTo(n + 1) = IF Report(n + 1).total > 0 THEN Report(n + 1)
                              ELSE ReportedUpTo(n)
    BY <1>5, <2>3, ReportsGrow
  <2>5. EndsBill(n + 1) => ~(Report(n + 1).total > 0)
    <3>1. EndsBill(n + 1) => Family = "anthropic" /\ e.type = "message_stop"
      BY <1>5 DEF EndsBill, e
    <3>2. EndsBill(n + 1) => ReportOfEvent(e) = NoUsage
      BY <3>1 DEF ReportOfEvent
    <3>3. ~(NoUsage.total > 0)
      BY Constructors
    <3> QED BY <1>8, <3>2, <3>3
  <2>6. EndsBill(n + 1) => Reported = ReportedUpTo(n + 1)
    <3>1. n + 1 \in Nat \ {0}
      BY <1>5
    <3> QED BY <1>5, <3>1, ReportsEnd DEF Reported
  <2>7. \/ \E i \in DOMAIN out' : out'[i].usage.total > 0
        \/ meter'.usage = ReportedUpTo(taken)'
    BY <1>2, <1>3, <1>4, <1>8, <2>2, <2>3, <2>4 DEF Writes
  <2>8. \A i \in DOMAIN out' : out'[i].usage.total > 0 =>
          out'[i].usage = ReportedUpTo(taken)'
    BY <1>2, <1>4, <1>8, <2>2, <2>4 DEF Writes
  <2>9. \A i \in DOMAIN out' : out'[i].done =>
          /\ Reported' = ReportedUpTo(taken)'
          /\ \A k \in DOMAIN out' : ~(out'[k].usage.total > 0)
    <3>1. SUFFICES ASSUME NEW i \in DOMAIN out', out'[i].done
                   PROVE  /\ Reported' = ReportedUpTo(taken)'
                          /\ \A k \in DOMAIN out' : ~(out'[k].usage.total > 0)
      OBVIOUS
    <3>2. EndsBill(n + 1)
      BY <1>2, <2>2, <3>1 DEF Writes
    <3>3. \A k \in DOMAIN out' : out'[k].usage.total > 0 =>
            out'[k].usage = Report(n + 1)
      BY <1>2, <1>8, <2>2 DEF Writes
    <3> QED BY <1>4, <2>5, <2>6, <3>2, <3>3
  <2>10. \A j \in 1..taken' : EndsBill(j)' => \E i \in DOMAIN out' : out'[i].done
    <3>1. \A j \in 1..taken' : j = n + 1 \/ j \in 1..n
      BY <1>1, <1>5
    <3> QED BY <1>2, <1>4, <2>2, <2>3, <3>1 DEF Writes
  <2> QED BY <2>7, <2>8, <2>9, <2>10 DEF Expected
<1>11. BilledAsReported'
  BY <1>3, <1>4 DEF ReportedInv, BilledAsReported
<1> QED BY <1>9, <1>10, <1>11 DEF ReportedInv

\* A scan that nothing broke off ends at the end of the answer.
LEMMA TranslatorEndsReported ==
  ASSUME TypeInv, ReportedInv, TranslatorEnds
  PROVE  ReportedInv'
<1>1. /\ stream' = stream /\ memory' = memory
      /\ UNCHANGED <<sent, taken, upstream, meter, bill, handler, gone, seen>>
      /\ translator = "scan" /\ translator' = "done" /\ out = <<>>
      /\ out' = <<>> \/ out' = <<Done>>
  BY DEF TranslatorEnds, provider, Keep, Write
<1>2. /\ Answer' = Answer /\ Family' = Family /\ Native' = Native
      /\ Reported' = Reported /\ Readable' = Readable
      /\ \A i : EndsBill(i)' = EndsBill(i)
      /\ ReportedUpTo(taken)' = ReportedUpTo(taken) /\ Started(taken)' = Started(taken)
  BY <1>1, SameStream, SameReports
<1>3. ~Native
  BY <1>1 DEF TypeInv
<1>4. Clean => taken = Len(Answer)
  <2> SUFFICES ASSUME Clean PROVE taken = Len(Answer)
    OBVIOUS
  <2>1. /\ Len(Answer) \in Nat /\ DOMAIN Answer = 1..Len(Answer)
        /\ sent \in 0..Len(Answer) /\ taken \in 0..sent
        /\ upstream \in {"open", "ended", "cut"}
        /\ upstream = "ended" => sent = Len(Answer)
    BY AnswerType DEF TypeInv, TypeOK
  <2>2. CASE taken = sent
    BY <2>1, <2>2 DEF TranslatorEnds, Clean
  <2>3. CASE taken # sent
    <3>1. taken + 1 \in DOMAIN Answer
      <4>1. sent \in 0..Len(Answer) /\ taken \in 0..sent /\ Len(Answer) \in Nat
        BY <2>1
      <4>2. taken + 1 \in 1..Len(Answer)
        BY <2>3, <4>1
      <4> QED BY <2>1, <4>2
    <3>2. Answer[taken + 1].type = "oversized"
      BY <2>3 DEF TranslatorEnds
    <3> QED BY <1>3, <3>1, <3>2 DEF Clean, Readable
  <2> QED BY <2>2, <2>3
<1>5. Clean' <=> Clean
  BY <1>1, <1>2 DEF Clean
<1>6. Followed'
  BY <1>1, <1>2, <1>3, <1>4, <1>5 DEF ReportedInv, Followed
<1>7. Expected'
  <2>1. \A i \in DOMAIN out' : ~(out'[i].usage.total > 0)
    <3>1. DOMAIN <<Done>> = {1} /\ <<Done>>[1] = Done
      OBVIOUS
    <3>2. ~(Done.usage.total > 0)
      BY Constructors
    <3> QED BY <1>1, <3>1, <3>2
  <2>2. ASSUME Clean, bill = NoBill
        PROVE  meter.usage = ReportedUpTo(taken) /\ \A j \in 1..taken : ~EndsBill(j)
    BY <1>1, <2>2 DEF ReportedInv, Expected
  <2>3. Clean => Reported = ReportedUpTo(taken)
    BY <1>4 DEF Reported
  <2> QED BY <1>1, <1>2, <1>5, <2>1, <2>2, <2>3 DEF Expected
<1>8. BilledAsReported'
  BY <1>1, <1>2 DEF ReportedInv, BilledAsReported
<1> QED BY <1>6, <1>7, <1>8 DEF ReportedInv

\* Read from the pipe: every chunk is a line, and none is given up on.
LEMMA ReadReported ==
  ASSUME TypeInv, ReportedInv, Read, ~Native
  PROVE  ReportedInv'
<1> DEFINE piece == Head(out)
<1>1. /\ stream' = stream /\ handler = "read"
      /\ UNCHANGED <<sent, taken, upstream, translator, memory, handler, gone>>
      /\ out # <<>> /\ Inspect(piece) /\ out' = Tail(out)
  BY DEF Read
<1>2. /\ Answer' = Answer /\ Family' = Family /\ Native' = Native
      /\ Reported' = Reported /\ Readable' = Readable
      /\ \A i : EndsBill(i)' = EndsBill(i)
      /\ ReportedUpTo(taken)' = ReportedUpTo(taken) /\ Started(taken)' = Started(taken)
  BY <1>1, SameStream, SameReports
<1>3. /\ Len(out) \in Nat /\ 1 \in DOMAIN out /\ piece = out[1] /\ piece \in Chunks
      /\ piece.last
      /\ \A i \in DOMAIN out' : i + 1 \in DOMAIN out /\ out'[i] = out[i + 1]
      /\ \A i \in DOMAIN out : i = 1 \/ (i - 1 \in DOMAIN out' /\ out'[i - 1] = out[i])
  <2>1. out \in Seq(Chunks) /\ \A i \in DOMAIN out : out[i].last
    BY DEF TypeInv
  <2> QED BY <1>1, <2>1
<1> HIDE DEF piece
<1>4. /\ ~meter.overflowed /\ meter \in Meters
      /\ Clean' <=> Clean
  BY <1>1, <1>2 DEF ReportedInv, Followed, Clean, TypeInv
<1>5. EndLine(piece)
  BY <1>1, <1>3 DEF Inspect
<1>6. ProcessLine(piece)
  BY <1>4, <1>5 DEF EndLine
<1>7. CASE piece.done
  <2>1. meter' = [meter EXCEPT !.buffered = 0] /\ Finish
    BY <1>6, <1>7 DEF ProcessLine
  <2>2. bill' # NoBill /\ bill' = IF bill = NoBill THEN Account(meter) ELSE bill
    BY <2>1, FinishType
  <2>3. meter'.buffered = 0 /\ ~meter'.overflowed
    BY <1>4, <2>1 DEF Meters
  <2>4. Followed'
    BY <1>1, <1>2, <1>4, <2>2, <2>3 DEF ReportedInv, Followed
  <2>5. Expected'
    BY <2>2 DEF Expected
  <2>6. BilledAsReported'
    <3>1. CASE bill # NoBill
      BY <1>1, <2>2, <3>1, ReportedBillStays DEF ReportedInv
    <3>2. CASE bill = NoBill /\ Clean
      <4>1. meter.usage = Reported
        BY <1>3, <1>7, <3>2 DEF ReportedInv, Expected
      <4> QED BY <1>1, <2>2, <3>2, <4>1, BillsReported
    <3>3. CASE ~Clean
      BY <1>4, <3>3 DEF BilledAsReported, Clean
    <3> QED BY <3>1, <3>2, <3>3
  <2> QED BY <2>4, <2>5, <2>6 DEF ReportedInv
<1>8. CASE ~piece.done
  <2>1. /\ meter' = [meter EXCEPT
              !.buffered = 0,
              !.usage    = IF piece.usage.total > 0 THEN piece.usage ELSE @,
              !.text     = @ + piece.text]
        /\ bill' = bill
    BY <1>6, <1>8 DEF ProcessLine
  <2>2. /\ meter'.buffered = 0 /\ ~meter'.overflowed
        /\ meter'.usage = IF piece.usage.total > 0 THEN piece.usage ELSE meter.usage
    BY <1>4, <2>1 DEF Meters
  <2>3. Followed'
    BY <1>1, <1>2, <1>4, <2>1, <2>2 DEF ReportedInv, Followed
  <2>4. Expected'
    <3> SUFFICES ASSUME Clean', bill' = NoBill
                 PROVE  Expected'
      BY DEF Expected
    <3>1. /\ \/ \E i \in DOMAIN out : out[i].usage.total > 0
             \/ meter.usage = ReportedUpTo(taken)
          /\ \A i \in DOMAIN out : out[i].usage.total > 0 =>
               out[i].usage = ReportedUpTo(taken)
          /\ \A i \in DOMAIN out : out[i].done =>
               /\ Reported = ReportedUpTo(taken)
               /\ \A k \in DOMAIN out : ~(out[k].usage.total > 0)
          /\ \A j \in 1..taken : EndsBill(j) => \E i \in DOMAIN out : out[i].done
      BY <1>4, <2>1 DEF ReportedInv, Expected
    <3>2. \/ \E i \in DOMAIN out' : out'[i].usage.total > 0
          \/ meter'.usage = ReportedUpTo(taken)
      BY <1>3, <2>2, <3>1
    <3>3. \A i \in DOMAIN out' : out'[i].usage.total > 0 =>
            out'[i].usage = ReportedUpTo(taken)
      BY <1>3, <3>1
    <3>4. \A i \in DOMAIN out' : out'[i].done =>
            /\ Reported = ReportedUpTo(taken)
            /\ \A k \in DOMAIN out' : ~(out'[k].usage.total > 0)
      BY <1>3, <3>1
    <3>5. \A j \in 1..taken : EndsBill(j) => \E i \in DOMAIN out' : out'[i].done
      BY <1>3, <1>8, <3>1
    <3> QED BY <1>1, <1>2, <3>2, <3>3, <3>4, <3>5 DEF Expected
  <2>5. BilledAsReported'
    BY <1>1, <1>2, <2>1 DEF ReportedInv, BilledAsReported
  <2> QED BY <2>3, <2>4, <2>5 DEF ReportedInv
<1> QED BY <1>7, <1>8

\* Read from the provider's answer: a line that is given up on is too long to be
\* readable.
LEMMA ReadNativeReported ==
  ASSUME TypeInv, Buffered, ReportedInv, Read, Native
  PROVE  ReportedInv'
<1> DEFINE n     == taken
           piece == Answer[n + 1]
<1>1. /\ stream' = stream /\ handler = "read" /\ n < sent /\ taken' = n + 1
      /\ UNCHANGED <<sent, upstream, translator, memory, handler, gone, out>>
      /\ Inspect(piece)
  BY DEF Read
<1>2. /\ Answer' = Answer /\ Family' = Family /\ Native' = Native
      /\ Reported' = Reported /\ Readable' = Readable
      /\ \A i : EndsBill(i)' = EndsBill(i)
      /\ ReportedUpTo(taken)' = ReportedUpTo(n + 1)
  BY <1>1, SameStream, SameReports
<1>3. /\ n \in Nat /\ n + 1 \in 1..Len(Answer) /\ Len(Answer) \in Nat
      /\ DOMAIN Answer = 1..Len(Answer)
      /\ n + 1 \in DOMAIN Answer /\ n + 1 <= Len(Answer)
  <2>1. /\ Len(Answer) \in Nat /\ DOMAIN Answer = 1..Len(Answer)
        /\ sent \in 0..Len(Answer) /\ taken \in 0..sent
    BY AnswerType DEF TypeInv, TypeOK
  <2>2. n + 1 \in 1..Len(Answer)
    BY <1>1, <2>1
  <2> QED BY <2>1, <2>2
<1>4. piece \in Chunks /\ (~piece.last => piece = Part)
  <2>1. piece \in Chunks
    BY <1>3, AnswerType DEF TypeInv
  <2> QED BY <2>1 DEF Chunks
<1>5. /\ out = <<>> /\ translator = "none" /\ Family # "anthropic"
      /\ meter \in Meters /\ seen \in Seq(Chunks)
  BY DEF TypeInv, Native
<1>6. Report(n + 1) = piece.usage /\ (EndsBill(n + 1) <=> piece.done)
  BY <1>5 DEF Report, EndsBill, Native
<1> HIDE DEF n, piece
<1>7. Clean' <=> Clean
  BY <1>1, <1>2 DEF Clean
<1>8. ASSUME bill = NoBill, bill' = NoBill
      PROVE  Len(seen') = n + 1 /\ \A i \in 1..(n + 1) : seen'[i] = Answer[i]
  <2>1. Len(seen) = n /\ \A i \in 1..n : seen[i] = Answer[i]
    BY <1>8 DEF ReportedInv, Followed, n
  <2>2. seen' = Append(seen, piece)
    BY <1>1, <1>8 DEF Inspect
  <2>3. /\ Len(seen') = n + 1 /\ seen'[n + 1] = piece
        /\ \A i \in 1..n : seen'[i] = seen[i]
    BY <1>4, <1>5, <2>1, <2>2, AppendPiece
  <2>4. \A i \in 1..(n + 1) : i = n + 1 \/ i \in 1..n
    BY <1>3
  <2> QED BY <2>1, <2>3, <2>4 DEF piece
<1>9. bill' = NoBill => bill = NoBill
  BY <1>1 DEF Inspect, EndLine, ProcessLine, Finish
<1>10. Followed'
  BY <1>1, <1>2, <1>5, <1>8, <1>9 DEF ReportedInv, Followed
<1>11. ASSUME Clean, bill = NoBill
       PROVE  /\ meter.usage = ReportedUpTo(n) /\ \A j \in 1..n : ~EndsBill(j)
              /\ ReportedUpTo(n + 1) = IF piece.usage.total > 0 THEN piece.usage
                                       ELSE meter.usage
              /\ piece.done => Reported = ReportedUpTo(n + 1)
  <2>1. meter.usage = ReportedUpTo(n) /\ \A j \in 1..n : ~EndsBill(j)
    BY <1>5, <1>11 DEF ReportedInv, Expected, n
  <2>2. ReportedUpTo(n + 1) = IF Report(n + 1).total > 0 THEN Report(n + 1)
                              ELSE ReportedUpTo(n)
    BY <1>3, <2>1, ReportsGrow
  <2>3. piece.done => Reported = ReportedUpTo(n + 1)
    <3>1. n + 1 \in Nat \ {0}
      BY <1>3
    <3> QED BY <1>3, <1>6, <3>1, ReportsEnd DEF Reported
  <2> QED BY <1>6, <2>1, <2>2, <2>3
<1>12. ASSUME Clean, bill = NoBill, bill' = NoBill,
              meter'.usage = ReportedUpTo(n + 1), ~EndsBill(n + 1)
       PROVE  Expected'
  <2>1. \A j \in 1..(n + 1) : ~EndsBill(j)
    <3>1. \A j \in 1..(n + 1) : j = n + 1 \/ j \in 1..n
      BY <1>3
    <3> QED BY <1>11, <1>12, <3>1
  <2> QED BY <1>1, <1>2, <1>5, <1>12, <2>1 DEF Expected
<1>13. CASE bill # NoBill
  <2>1. bill' = bill
    BY <1>1, <1>13 DEF Inspect, EndLine, ProcessLine, Finish
  <2> QED BY <1>1, <1>10, <1>13, <2>1, ReportedBillStays DEF ReportedInv, Expected
<1>14. CASE ~Clean
  <2>1. Expected' /\ BilledAsReported'
    BY <1>7, <1>14 DEF Expected, BilledAsReported, Clean
  <2> QED BY <1>10, <2>1 DEF ReportedInv
<1>15. CASE Clean /\ bill = NoBill
  <2>1. CASE ~piece.last
    <3>1. meter' = [meter EXCEPT !.buffered = @ + 1] /\ bill' = bill
      BY <1>1, <2>1 DEF Inspect
    <3>2. meter'.usage = meter.usage
      BY <1>5, <3>1 DEF Meters
    <3>3. ~(piece.usage.total > 0) /\ ~piece.done
      BY <1>4, <2>1, Constructors DEF Part
    <3>4. Expected'
      BY <1>6, <1>11, <1>12, <1>15, <3>1, <3>2, <3>3
    <3> QED BY <1>10, <1>15, <3>1, <3>4 DEF ReportedInv, BilledAsReported
  <2>2. CASE piece.last /\ meter.overflowed
    <3>1. /\ meter' = [meter EXCEPT !.buffered = 0, !.overflowed = FALSE]
          /\ bill' = bill
      BY <1>1, <2>2 DEF Inspect, EndLine
    <3>2. meter'.usage = meter.usage
      BY <1>5, <3>1 DEF Meters
    <3>3. ~Short(Answer, n + 1)
      <4>1. Len(seen) = n /\ \A i \in 1..n : seen[i] = Answer[i]
        BY <1>15 DEF ReportedInv, Followed, n
      <4>2. \A j \in 0..n : j = 0 \/ seen[j].last => n - j > MaxLine
        BY <1>15, <2>2, <4>1 DEF Buffered
      <4>3. \A j \in 0..n : j = 0 \/ seen[j] = Answer[j]
        BY <1>3, <4>1
      <4>4. \A j \in 0..n : n - j > MaxLine => ~((n + 1) - j <= MaxLine)
        BY <1>3, SizeAssumption
      <4>5. (n + 1) - 1 = n
        BY <1>3
      <4> QED BY <4>2, <4>3, <4>4, <4>5 DEF Short
    <3>4. ~(piece.usage.total > 0) /\ ~piece.done
      BY <1>3, <1>6, <1>15, <3>3 DEF Clean, Readable
    <3>5. Expected'
      BY <1>6, <1>11, <1>12, <1>15, <3>1, <3>2, <3>4
    <3> QED BY <1>10, <1>15, <3>1, <3>5 DEF ReportedInv, BilledAsReported
  <2>3. CASE piece.last /\ ~meter.overflowed /\ piece.done
    <3>1. Finish
      BY <1>1, <2>3 DEF Inspect, EndLine, ProcessLine
    <3>2. bill' = Account(meter) /\ bill' # NoBill
      BY <1>15, <3>1, FinishType
    <3>3. ~(piece.usage.total > 0)
      <4>1. piece = Done
        BY <1>4, <2>3 DEF Chunks
      <4> QED BY <4>1, Constructors
    <3>4. meter.usage = Reported
      BY <1>11, <1>15, <2>3, <3>3
    <3>5. BilledAsReported'
      BY <1>1, <3>2, <3>4, BillsReported
    <3> QED BY <1>10, <3>2, <3>5 DEF ReportedInv, Expected
  <2>4. CASE piece.last /\ ~meter.overflowed /\ ~piece.done
    <3>1. /\ meter' = [meter EXCEPT
                !.buffered = 0,
                !.usage    = IF piece.usage.total > 0 THEN piece.usage ELSE @,
                !.text     = @ + piece.text]
          /\ bill' = bill
      BY <1>1, <2>4 DEF Inspect, EndLine, ProcessLine
    <3>2. meter'.usage = IF piece.usage.total > 0 THEN piece.usage ELSE meter.usage
      BY <1>5, <3>1 DEF Meters
    <3>3. Expected'
      BY <1>6, <1>11, <1>12, <1>15, <2>4, <3>1, <3>2
    <3> QED BY <1>10, <1>15, <3>1, <3>3 DEF ReportedInv, BilledAsReported
  <2> QED BY <2>1, <2>2, <2>3, <2>4
<1> QED BY <1>13, <1>14, <1>15

LEMMA ReadReturnsReported ==
  ASSUME TypeInv, ReportedInv, ReadReturns
  PROVE  ReportedInv'
<1>1. /\ stream' = stream /\ handler = "read" /\ Cap
      /\ UNCHANGED <<sent, taken, upstream, translator, memory, out, bill, gone, seen>>
      /\ handler' = "read" \/ (handler' = "close" /\ gone)
  BY DEF ReadReturns, provider
<1>2. /\ Answer' = Answer /\ Family' = Family /\ Native' = Native
      /\ Reported' = Reported /\ Readable' = Readable
      /\ \A i : EndsBill(i)' = EndsBill(i)
      /\ ReportedUpTo(taken)' = ReportedUpTo(taken) /\ Started(taken)' = Started(taken)
  BY <1>1, SameStream, SameReports
<1>3. meter'.usage = meter.usage
  BY <1>1 DEF Cap, TypeInv, Meters
<1>4. ~Native => meter'.buffered = 0 /\ ~meter'.overflowed
  <2>1. ~Native => meter.buffered = 0 /\ ~meter.overflowed
    BY DEF ReportedInv, Followed
  <2> QED BY <1>1, <2>1, SizeAssumption DEF Cap
<1>5. Clean' <=> Clean
  BY <1>1, <1>2 DEF Clean
<1>6. Followed'
  BY <1>1, <1>2, <1>4, <1>5 DEF ReportedInv, Followed
<1>7. Expected'
  BY <1>1, <1>2, <1>3, <1>5 DEF ReportedInv, Expected
<1>8. BilledAsReported'
  BY <1>1, <1>2 DEF ReportedInv, BilledAsReported
<1> QED BY <1>6, <1>7, <1>8 DEF ReportedInv

\* The answer is at its end when the handler's loop is, unless it was cut.
LEMMA ReadEndsReported ==
  ASSUME TypeInv, ReportedInv, ReadEnds
  PROVE  ReportedInv'
<1>1. /\ stream' = stream /\ Finish /\ handler' = "close"
      /\ UNCHANGED <<sent, taken, upstream, translator, memory, out, meter, gone, seen>>
  BY DEF ReadEnds, provider
<1>2. /\ Answer' = Answer /\ Family' = Family /\ Native' = Native
      /\ Readable' = Readable /\ Started(taken)' = Started(taken)
  BY <1>1, SameStream, SameReports
<1>3. bill' # NoBill /\ bill' = IF bill = NoBill THEN Account(meter) ELSE bill
  BY <1>1, FinishType
<1>4. Clean' <=> Clean
  BY <1>1, <1>2 DEF Clean
<1>5. Followed'
  BY <1>1, <1>2, <1>3, <1>4 DEF ReportedInv, Followed
<1>6. Expected'
  BY <1>3 DEF Expected
<1>7. CASE bill # NoBill
  BY <1>1, <1>3, <1>5, <1>6, <1>7, ReportedBillStays DEF ReportedInv
<1>8. CASE ~Clean
  <2>1. BilledAsReported'
    BY <1>4, <1>8 DEF BilledAsReported, Clean
  <2> QED BY <1>5, <1>6, <2>1 DEF ReportedInv
<1>9. CASE Clean /\ bill = NoBill
  <2>1. out = <<>>
    BY DEF ReadEnds, TypeInv
  <2>2. meter.usage = ReportedUpTo(taken)
    BY <1>9, <2>1 DEF ReportedInv, Expected
  <2>3. taken = Len(Answer)
    <3>1. CASE Native
      BY <1>9, <3>1 DEF ReadEnds, Clean, TypeInv, TypeOK
    <3>2. CASE ~Native
      BY <1>9, <3>2 DEF ReadEnds, ReportedInv, Followed
    <3> QED BY <3>1, <3>2
  <2>4. BilledAsReported'
    BY <1>1, <1>3, <1>9, <2>2, <2>3, BillsReported DEF Reported
  <2> QED BY <1>5, <1>6, <2>4 DEF ReportedInv
<1> QED BY <1>7, <1>8, <1>9

\* A handler that closes early does so for a client that has left.
LEMMA CloseReported ==
  ASSUME TypeInv, ReportedInv, Close
  PROVE  ReportedInv'
<1>1. /\ stream' = stream /\ Finish /\ handler = "close"
      /\ UNCHANGED <<sent, taken, upstream, translator, memory, meter, gone, seen>>
  BY DEF Close, provider
<1>2. /\ Answer' = Answer /\ Family' = Family /\ Native' = Native
      /\ Readable' = Readable /\ Started(taken)' = Started(taken)
  BY <1>1, SameStream, SameReports
<1>3. bill' # NoBill /\ bill' = IF bill = NoBill THEN Account(meter) ELSE bill
  BY <1>1, FinishType
<1>4. Clean' <=> Clean
  BY <1>1, <1>2 DEF Clean
<1>5. Followed'
  BY <1>1, <1>2, <1>3, <1>4 DEF ReportedInv, Followed
<1>6. Expected'
  BY <1>3 DEF Expected
<1>7. BilledAsReported'
  <2>1. CASE bill # NoBill
    BY <1>1, <1>3, <2>1, ReportedBillStays DEF ReportedInv
  <2>2. CASE bill = NoBill
    BY <1>1, <2>2 DEF ReportedInv, Followed, BilledAsReported
  <2> QED BY <2>1, <2>2
<1> QED BY <1>5, <1>6, <1>7 DEF ReportedInv

LEMMA ReportedStep ==
  ASSUME TypeInv, DeliveredInv, ReportedInv, [Next]_vars
  PROVE  ReportedInv'
<1>1. CASE Translate
  BY <1>1, TranslateReported
<1>2. CASE TranslatorEnds
  BY <1>2, TranslatorEndsReported
<1>3. CASE Read
  BY <1>3, ReadReported, ReadNativeReported DEF DeliveredInv
<1>4. CASE ReadReturns
  BY <1>4, ReadReturnsReported
<1>5. CASE ReadEnds
  BY <1>5, ReadEndsReported
<1>6. CASE Close
  BY <1>6, CloseReported
<1>7. CASE Send \/ End \/ Break \/ Cancel \/ Leave \/ Save \/ SaveFails
         \/ UNCHANGED vars
  <2>1. /\ stream' = stream
        /\ UNCHANGED <<taken, translator, memory, out, meter, bill, handler, seen>>
        /\ upstream' # "cut" => upstream # "cut"
        /\ ~gone' => ~gone
    BY <1>7 DEF Send, End, Break, Cancel, Cut, Leave, Save, SaveFails, vars,
              provider
  <2> QED BY <2>1, OthersReported
<1>8. CASE Exit
  BY <1>8, ExitReported
<1> QED BY <1>1, <1>2, <1>3, <1>4, <1>5, <1>6, <1>7, <1>8 DEF Next, Idle

\* Stream.BillSound holds in every reachable state, for every answer of the three
\* families: what a client was streamed is what is billed, and what the provider
\* reported is what is billed, unless the stream was cut off or the client left.
THEOREM BillAlwaysSound == Spec => []BillSound
<1> DEFINE IInv == TypeInv /\ DeliveredInv /\ ReportedInv
<1>1. Init => IInv
  BY InitTypeInv, InitDeliveredInv, InitReportedInv
<1>2. IInv /\ [Next]_vars => IInv'
  BY TypeInvStep, DeliveredStep, ReportedStep
<1>3. IInv => BillSound
  BY DEF DeliveredInv, ReportedInv, BillSound
<1> HIDE DEF IInv
<1> QED BY <1>1, <1>2, <1>3, PTL DEF Spec
=============================================================================
