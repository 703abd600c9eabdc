-------------------------- MODULE PriceFileProofs --------------------------
(***************************************************************************)
(* What a price file keeps: a table survives being written and read back,  *)
(* hence edits that do not overlap add up whatever crashes or is refused,  *)
(* and every table a call is priced from was, whole, in the file once.     *)
(* Before that, what the price arithmetic computes for every argument.     *)
(***************************************************************************)
EXTENDS PriceFile, TLAPS

----------------------------------------------------------------------------
(* The calendar and the rounding, for every instant and every amount.      *)

\* A peak window lies inside one Beijing day and carries the UTC date of it.
LEMMA WindowDate ==
  ASSUME NEW t \in Nat
  PROVE  /\ Hour(t + 8) \in 9..11 \cup 14..17 <=> Hour(t) \in 1..3 \cup 6..9
         /\ Hour(t) \in 1..3 \cup 6..9 => Date(t + 8) = Date(t)
  BY DEF Hour, Date

\* IsPeak's comment: "the two keyings agree".  Whatever the date sets are,
\* an instant is peak by its UTC hour and date exactly when it is peak by
\* Beijing's.
THEOREM UtcAndBeijingAgree ==
  ASSUME NEW cal, NEW t \in Nat
  PROVE  IsPeak(cal, t) <=> BeijingPeak(cal, t)
  BY WindowDate DEF IsPeak, BeijingPeak

LEMMA DivisionFacts ==
  ASSUME NEW n \in Nat
  PROVE  /\ n \div Den \in Nat
         /\ n % Den \in 0..(Den - 1)
         /\ n = Den * (n \div Den) + (n % Den)
  BY DenAssumption

\* RoundHalfUp is the nearest whole micro-dollar of a sum of costs, the upper
\* one of two that are equally near.
THEOREM RoundingIsNearest ==
  ASSUME NEW n \in Nat
  PROVE  /\ RoundHalfUp(n) \in Nat
         /\ 2 * (Den * RoundHalfUp(n) - n) \in (1 - Den)..Den
  BY DivisionFacts, DenAssumption DEF RoundHalfUp, Magnitude

USE PriceInputs DEF PriceAssumption

----------------------------------------------------------------------------
(* Tables and files.                                                       *)

Names == ShippedModels \cup {e.model : e \in Edits} \cup {l.model : l \in (UNION HandEdits)}

Rates == Nat \cup {Unset}

IsTable(t) ==
  /\ t \in [DOMAIN t -> [Fields -> Rates]]
  /\ ShippedModels \subseteq DOMAIN t /\ DOMAIN t \subseteq Names
  /\ NotAModel \notin DOMAIN t

Lines == (UNION HandEdits) \cup [model : Names, field : Fields \cup {Bare}, rate : Int]

Files == [lines : SUBSET Lines, at : Nat \cup {-1}]

LEMMA LineTyped ==
  ASSUME NEW l \in Lines
  PROVE  l.model \in Names /\ l.rate \in Int
  BY DEF Lines, Names

LEMMA DefaultTyped == IsTable(Default)
  BY DEF IsTable, Default, NoRates, Rates, Names, ShippedModels, NotAModel

\* One line of a model and field is chosen; its rate is good.
LEMMA ParsedRate ==
  ASSUME NEW lines \in SUBSET Lines, \A l \in lines : GoodLine(l),
         NEW m, NEW f \in Fields, \E l \in lines : l.model = m /\ l.field = f
  PROVE  (CHOOSE l \in lines : l.model = m /\ l.field = f).rate \in Nat
<1> DEFINE line == CHOOSE l \in lines : l.model = m /\ l.field = f
<1>1. line \in lines /\ line.model = m /\ line.field = f
  OBVIOUS
<1>2. f # Bare
  BY DEF Fields, Bare
<1>3. line.rate \in Int
  BY <1>1, LineTyped
<1>4. GoodRate(line.rate)
  BY <1>1, <1>2 DEF GoodLine
<1> QED
  BY <1>3, <1>4 DEF GoodRate

LEMMA LoadTyped ==
  ASSUME NEW fl \in Files, Loads(fl)
  PROVE  IsTable(Load(fl))
<1>1. CASE ~ Exists(fl)
  BY <1>1, DefaultTyped DEF Load
<1>2. CASE Exists(fl)
  <2> DEFINE p == ParseTable(fl.lines)
  <2>1. fl.lines \in SUBSET Lines /\ \A l \in fl.lines : GoodLine(l)
    BY DEF Files, Loads
  <2>2. DOMAIN p = {l.model : l \in fl.lines}
    BY DEF ParseTable
  <2>3. \A m \in DOMAIN p : p[m] \in [Fields -> Rates]
    <3> TAKE m \in DOMAIN p
    <3>1. p[m] = [f \in Fields |->
                    IF \E l \in fl.lines : l.model = m /\ l.field = f
                    THEN (CHOOSE l \in fl.lines : l.model = m /\ l.field = f).rate
                    ELSE Unset]
      BY DEF ParseTable
    <3>2. ASSUME NEW f \in Fields PROVE p[m][f] \in Rates
      <4>1. CASE \E l \in fl.lines : l.model = m /\ l.field = f
        <5>1. (CHOOSE l \in fl.lines : l.model = m /\ l.field = f).rate \in Nat
          BY <4>1, <2>1, ParsedRate
        <5> QED
          BY <3>1, <4>1, <5>1 DEF Rates
      <4>2. CASE ~ \E l \in fl.lines : l.model = m /\ l.field = f
        BY <3>1, <4>2 DEF Rates
      <4> QED
        BY <4>1, <4>2
    <3> QED
      BY <3>1, <3>2
  <2>4. DOMAIN p \subseteq Names /\ NotAModel \notin DOMAIN p
    BY <2>1, <2>2, LineTyped DEF GoodLine, GoodModel
  <2>5. Load(fl) = Layer(p, Default)
    BY <1>2 DEF Load
  <2> HIDE DEF p
  <2>6. IsTable(Layer(p, Default))
    BY <2>3, <2>4, DefaultTyped DEF Layer, IsTable, Default
  <2> QED
    BY <2>5, <2>6
<1> QED
  BY <1>1, <1>2

LEMMA PutIs ==
  ASSUME NEW t, NEW m, NEW r
  PROVE  Put(t, m, r) = [x \in DOMAIN t \cup {m} |-> IF x = m THEN r ELSE t[x]]
<1> DEFINE D == {m} \cup DOMAIN t
<1>1. Put(t, m, r) = [x \in D |-> IF x \in {m} THEN [y \in {m} |-> r][x] ELSE t[x]]
  BY DEF Put, Layer
<1>2. D = DOMAIN t \cup {m}
  OBVIOUS
<1>3. \A x \in D : (IF x \in {m} THEN [y \in {m} |-> r][x] ELSE t[x]) = IF x = m THEN r ELSE t[x]
  OBVIOUS
<1> QED
  BY <1>1, <1>2, <1>3

LEMMA RatesAfterTyped ==
  ASSUME NEW t, IsTable(t), NEW e \in Edits
  PROVE  RatesAfter(t, e) \in [Fields -> Int]
<1>1. CASE e.op = "set" /\ e.field \in Fields /\ e.rate \in Int
  <2>1. RatesIn(t, e.model) \in [Fields -> Int]
    BY DEF RatesIn, IsTable, Rates, NoRates, Unset
  <2>2. RatesAfter(t, e) = [RatesIn(t, e.model) EXCEPT ![e.field] = e.rate]
    BY <1>1 DEF RatesAfter
  <2> QED
    BY <1>1, <2>1, <2>2
<1>2. CASE e.op = "unset"
  <2>1. RatesAfter(t, e) = NoRates
    BY <1>2 DEF RatesAfter
  <2> QED
    BY <2>1 DEF NoRates, Unset
<1>3. CASE e.op = "post" /\ e.rates \in [Fields -> Int]
  <2>1. RatesAfter(t, e) = e.rates
    BY <1>3 DEF RatesAfter
  <2> QED
    BY <1>3, <2>1
<1> QED
  BY <1>1, <1>2, <1>3

LEMMA ApplyTyped ==
  ASSUME NEW t, IsTable(t), NEW e \in Edits, Valid(Apply(t, e))
  PROVE  IsTable(Apply(t, e))
<1> DEFINE r == RatesAfter(t, e)
           m == e.model
           D == DOMAIN t \cup {m}
<1>1. Apply(t, e) = [x \in D |-> IF x = m THEN r ELSE t[x]]
  BY PutIs DEF Apply
<1>2. m # NotAModel /\ \A f \in Fields : r[f] # Unset => r[f] >= 0
  BY <1>1 DEF Valid, GoodModel, GoodRate
<1>3. r \in [Fields -> Rates]
  BY <1>2, RatesAfterTyped DEF Rates
<1>4. m \in Names
  BY DEF Names
<1> HIDE DEF r, m
<1> QED
  BY <1>1, <1>2, <1>3, <1>4 DEF IsTable

LEMMA EncodeTyped ==
  ASSUME NEW t, IsTable(t)
  PROVE  Encode(t) \in SUBSET Lines
<1> SUFFICES ASSUME NEW l \in Encode(t) PROVE l \in [model : Names, field : Fields \cup {Bare}, rate : Int]
  BY DEF Lines
<1>1. PICK m \in DOMAIN t :
        \/ l = Line(m, Bare, Unset)
        \/ \E f \in Fields : l = Line(m, f, t[m][f])
  BY DEF Encode
<1> QED
  BY <1>1 DEF IsTable, Line, Rates, Unset

----------------------------------------------------------------------------
(* The round trip.                                                         *)

\* What Encode writes for a model and field, and that it names every model.
LEMMA EncodedLines ==
  ASSUME NEW t, IsTable(t)
  PROVE  /\ \A l \in Encode(t) : GoodLine(l)
         /\ {l.model : l \in Encode(t)} = DOMAIN t
         /\ \A m \in DOMAIN t, f \in Fields :
              \A l \in Encode(t) :
                l.model = m /\ l.field = f => l.rate = t[m][f] /\ t[m][f] # Unset
         /\ \A m \in DOMAIN t, f \in Fields :
              t[m][f] # Unset => \E l \in Encode(t) : l.model = m /\ l.field = f
<1>1. \A l \in Encode(t) : \E m \in DOMAIN t :
        \/ l = Line(m, Bare, Unset)
        \/ \E f \in Fields : l = Line(m, f, t[m][f]) /\ t[m][f] # Unset
  BY DEF Encode
<1>2. \A m \in DOMAIN t : t[m] = NoRates => Line(m, Bare, Unset) \in Encode(t)
  BY DEF Encode
<1>3. \A m \in DOMAIN t, f \in Fields :
        t[m][f] # Unset => Line(m, f, t[m][f]) \in Encode(t)
  <2> TAKE m \in DOMAIN t, f \in Fields
  <2> HAVE t[m][f] # Unset
  <2>1. t[m] # NoRates
    BY DEF NoRates
  <2> DEFINE Its(x) == IF t[x] = NoRates THEN {Line(x, Bare, Unset)}
                       ELSE {Line(x, h, t[x][h]) : h \in {g \in Fields : t[x][g] # Unset}}
  <2>2. Line(m, f, t[m][f]) \in Its(m)
    BY <2>1
  <2>3. Encode(t) = UNION {Its(x) : x \in DOMAIN t}
    BY DEF Encode
  <2> HIDE DEF Its
  <2> QED
    BY <2>2, <2>3
<1>4. \A m \in DOMAIN t : t[m] # NoRates => \E f \in Fields : t[m][f] # Unset
  BY DEF IsTable, NoRates
<1>5. Bare \notin Fields
  BY DEF Bare, Fields
<1>6. ASSUME NEW l \in Encode(t) PROVE GoodLine(l) /\ l.model \in DOMAIN t
  <2>1. PICK m \in DOMAIN t :
          \/ l = Line(m, Bare, Unset)
          \/ \E f \in Fields : l = Line(m, f, t[m][f]) /\ t[m][f] # Unset
    BY <1>1
  <2>2. m # NotAModel
    BY DEF IsTable
  <2>3. CASE l = Line(m, Bare, Unset)
    BY <2>2, <2>3 DEF Line, GoodLine, GoodModel
  <2>4. CASE \E f \in Fields : l = Line(m, f, t[m][f]) /\ t[m][f] # Unset
    <3>1. PICK f \in Fields : l = Line(m, f, t[m][f]) /\ t[m][f] # Unset
      BY <2>4
    <3>2. t[m][f] >= 0
      BY <3>1 DEF IsTable, Rates
    <3> QED
      BY <2>2, <3>1, <3>2 DEF Line, GoodLine, GoodModel, GoodRate
  <2> QED
    BY <2>1, <2>3, <2>4
<1>7. ASSUME NEW m \in DOMAIN t PROVE m \in {l.model : l \in Encode(t)}
  <2>1. CASE t[m] = NoRates
    <3>1. Line(m, Bare, Unset) \in Encode(t) /\ Line(m, Bare, Unset).model = m
      BY <2>1, <1>2 DEF Line
    <3> QED
      BY <3>1
  <2>2. CASE t[m] # NoRates
    <3>1. PICK f \in Fields : t[m][f] # Unset
      BY <2>2, <1>4
    <3>2. Line(m, f, t[m][f]) \in Encode(t) /\ Line(m, f, t[m][f]).model = m
      BY <3>1, <1>3 DEF Line
    <3> QED
      BY <3>2
  <2> QED
    BY <2>1, <2>2
<1>8. \A m \in DOMAIN t, f \in Fields : \A l \in Encode(t) :
        l.model = m /\ l.field = f => l.rate = t[m][f] /\ t[m][f] # Unset
  BY <1>1, <1>5 DEF Line
<1>9. \A m \in DOMAIN t, f \in Fields :
        t[m][f] # Unset => \E l \in Encode(t) : l.model = m /\ l.field = f
  BY <1>3 DEF Line
<1>10. {l.model : l \in Encode(t)} = DOMAIN t
  BY <1>6, <1>7
<1> QED
  BY <1>6, <1>8, <1>9, <1>10

\* Save then Load gives the table back: a rate that is not set stays unset
\* and a model without rates stays known.
THEOREM RoundTrip ==
  ASSUME NEW t, IsTable(t), NEW n \in Nat
  PROVE  LET saved == [lines |-> Encode(t), at |-> n]
         IN  Loads(saved) /\ Load(saved) = t
<1> DEFINE p == ParseTable(Encode(t))
<1>a. \A m \in DOMAIN t, f \in Fields : \A l \in Encode(t) :
        l.model = m /\ l.field = f => l.rate = t[m][f] /\ t[m][f] # Unset
  BY EncodedLines, Zenon
<1>b. \A m \in DOMAIN t, f \in Fields :
        t[m][f] # Unset => \E l \in Encode(t) : l.model = m /\ l.field = f
  BY EncodedLines, Zenon
<1>1. DOMAIN p = DOMAIN t
  BY EncodedLines DEF ParseTable
<1>2. ASSUME NEW m \in DOMAIN t PROVE p[m] = t[m]
  <2>1. p[m] = [f \in Fields |->
                  IF \E l \in Encode(t) : l.model = m /\ l.field = f
                  THEN (CHOOSE l \in Encode(t) : l.model = m /\ l.field = f).rate
                  ELSE Unset]
    BY <1>1, EncodedLines DEF ParseTable
  <2>2. ASSUME NEW f \in Fields PROVE p[m][f] = t[m][f]
    <3>1. CASE t[m][f] = Unset
      BY <3>1, <2>1, <1>a
    <3>2. CASE t[m][f] # Unset
      <4> DEFINE line == CHOOSE l \in Encode(t) : l.model = m /\ l.field = f
      <4>1. \E l \in Encode(t) : l.model = m /\ l.field = f
        BY <3>2, <1>b
      <4>2. line \in Encode(t) /\ line.model = m /\ line.field = f
        BY <4>1
      <4>3. line.rate = t[m][f]
        BY <4>2, <1>a
      <4> QED
        BY <2>1, <4>1, <4>3
    <3> QED
      BY <3>1, <3>2
  <2> QED
    BY <2>1, <2>2 DEF IsTable
<1>3. p = [m \in DOMAIN p |-> p[m]]
  BY DEF ParseTable
<1> HIDE DEF p
<1>4. Layer(p, Default) = t
  BY <1>1, <1>2 DEF Layer, IsTable, Default
<1> DEFINE saved == [lines |-> Encode(t), at |-> n]
<1>5. Loads(saved)
  BY EncodedLines DEF Loads
<1>6. Load(saved) = Layer(p, Default)
  BY DEF Load, Exists, p
<1> QED
  BY <1>4, <1>5, <1>6

----------------------------------------------------------------------------
(* The inductive invariant.                                                *)

FilesTyped ==
  /\ versions \in Seq(Files) /\ Len(versions) > 0
  /\ mtime \in Nat

\* A writer under way holds a table that Save will take.  Nothing was written
\* since it read the file, or its edit is part of a race.
Ready(w) ==
  Busy(w) =>
    /\ writer[w].edit \in Edits /\ IsTable(writer[w].table)
    /\ ~raced => Loads(file) /\ writer[w].table = Apply(Load(file), writer[w].edit)

WritersReady ==
  /\ writer = [w \in Writers |-> [at |-> writer[w].at, edit |-> writer[w].edit,
                                  table |-> writer[w].table]]
  /\ raced \in BOOLEAN
  /\ \A w \in Writers : Ready(w)

\* The stamp kept is that of a version, the table kept that of the same one
\* or a later one.
Stamped ==
  \E k \in 1..Len(versions) : \E i \in 1..k :
    /\ versions[i].at = loader.mod /\ Size(versions[i].lines) = loader.size
    /\ Loads(versions[k]) /\ Load(versions[k]) = loader.tbl

LoaderReady ==
  /\ loader = [mod |-> loader.mod, size |-> loader.size, tbl |-> loader.tbl,
               loading |-> loader.loading, stat |-> loader.stat]
  /\ loader.loading \in BOOLEAN
  /\ loader.mod \in Nat \cup {-1}
  /\ loader.tbl = NoTable \/ GoodOnce(loader.tbl, Len(versions))
  /\ loader.mod # -1 => Stamped
  /\ loader.loading =>
       span[2] = 0 /\ span[1] \in 1..Len(versions) /\ loader.stat = versions[span[1]]
  /\ span[2] \in 0..Len(versions)
  /\ Answered => span[1] \in 1..span[2]

PriceInv ==
  FilesTyped /\ WritersReady /\ EditsSurvive /\ LoaderReady /\ LoaderServesTheFile

LEMMA AppendFacts ==
  ASSUME NEW S, NEW s \in Seq(S), NEW e \in S
  PROVE  /\ Append(s, e) \in Seq(S)
         /\ Len(Append(s, e)) = Len(s) + 1
         /\ \A i \in 1..Len(s) : Append(s, e)[i] = s[i]
         /\ Append(s, e)[Len(s) + 1] = e
  OBVIOUS

LEMMA FileTyped ==
  ASSUME FilesTyped
  PROVE  /\ file \in Files /\ Len(versions) \in Nat \ {0}
         /\ \A i \in 1..Len(versions) : versions[i] \in Files
  BY DEF FilesTyped, file

\* The file is the last version, and the versions before it stay.
LEMMA BecomeFacts ==
  ASSUME FilesTyped, NEW f \in Files, Become(f), mtime' = mtime
  PROVE  /\ FilesTyped' /\ file' = f
         /\ Len(versions') = Len(versions) + 1
         /\ \A i \in 1..Len(versions) : versions'[i] = versions[i]
  BY AppendFacts DEF FilesTyped, Become, file

----------------------------------------------------------------------------
(* The loader's part.                                                      *)

\* It is kept by any step that leaves the loader and the versions so far.
LEMMA LoaderKept ==
  ASSUME FilesTyped, LoaderReady, LoaderServesTheFile, UNCHANGED <<loader, span>>,
         Len(versions') \in Nat, Len(versions') >= Len(versions),
         \A i \in 1..Len(versions) : versions'[i] = versions[i]
  PROVE  LoaderReady' /\ LoaderServesTheFile'
<1> USE FileTyped
<1>1. ASSUME NEW n \in 0..Len(versions), NEW t, GoodOnce(t, n)
      PROVE  GoodOnce(t, n)' /\ GoodOnce(t, Len(versions))'
  <2>1. CASE t = Default
    BY <2>1 DEF GoodOnce
  <2>2. CASE t # Default
    <3>1. PICK i \in 1..n : Loads(versions[i]) /\ Load(versions[i]) = t
      BY <1>1, <2>2 DEF GoodOnce
    <3>2. i \in 1..Len(versions') /\ versions'[i] = versions[i]
      BY <3>1
    <3> QED
      BY <3>1, <3>2 DEF GoodOnce
  <2> QED
    BY <2>1, <2>2
<1>2. Stamped => Stamped'
  BY DEF Stamped
<1>3. LoaderReady'
  BY <1>1, <1>2 DEF LoaderReady, Answered
<1>4. ASSUME Answered PROVE LoaderServesTheFile'
  <2>1. span[2] \in 1..Len(versions) /\ span[1] \in 1..span[2]
    BY <1>4 DEF LoaderReady, Answered
  <2>2. GoodOnce(loader.tbl, span[2])'
    BY <1>1, <1>4, <2>1 DEF LoaderServesTheFile
  <2>3. CASE UpToDate(loader.tbl, span[1], span[2])
    BY <2>1, <2>2, <2>3 DEF LoaderServesTheFile, UpToDate, Seen
  <2>4. CASE Masked
    <3>0. PICK j \in span[1]..span[2] : \E i \in 1..j : Alike(i, j)
      BY <2>4 DEF Masked
    <3>1. PICK i \in 1..j : Alike(i, j)
      BY <3>0
    <3>n. /\ i \in 1..Len(versions) /\ j \in 1..Len(versions)
          /\ \A k \in i..j : k \in 1..Len(versions)
      BY <2>1
    <3>2. Alike(i, j)'
      BY <3>n, <3>1 DEF Alike
    <3>3. Masked'
      BY <2>1, <3>1, <3>2 DEF Masked
    <3> QED
      BY <2>2, <3>3 DEF LoaderServesTheFile
  <2> QED
    BY <1>4, <2>3, <2>4 DEF LoaderServesTheFile
<1>5. ASSUME ~Answered PROVE LoaderServesTheFile'
  BY <1>5 DEF LoaderServesTheFile, Answered
<1> QED
  BY <1>3, <1>4, <1>5

LEMMA GoodIsTable ==
  ASSUME FilesTyped, NEW n \in 0..Len(versions), NEW t, GoodOnce(t, n)
  PROVE  IsTable(t)
<1>1. CASE t = Default
  BY <1>1, DefaultTyped
<1>2. CASE t # Default
  <2>1. PICK i \in 1..n : Loads(versions[i]) /\ Load(versions[i]) = t
    BY <1>2 DEF GoodOnce
  <2>2. versions[i] \in Files
    BY FileTyped
  <2> QED
    BY <2>1, <2>2, LoadTyped
<1> QED
  BY <1>1, <1>2

LEMMA TableIsSome ==
  ASSUME NEW t, IsTable(t)
  PROVE  t # NoTable
<1>1. "pro" \in DOMAIN t /\ DOMAIN NoTable = {}
  BY DEF IsTable, ShippedModels, NoTable
<1> QED
  BY <1>1

\* What is answered without a table from the file at hand.
LEMMA LastGoodFacts ==
  ASSUME FilesTyped, LoaderReady
  PROVE  /\ GoodOnce(LastGood, Len(versions))
         /\ Stamped => LastGood = loader.tbl
<1>1. Stamped => loader.tbl # NoTable
  <2> SUFFICES ASSUME Stamped PROVE loader.tbl # NoTable
    OBVIOUS
  <2>1. PICK k \in 1..Len(versions) : Loads(versions[k]) /\ Load(versions[k]) = loader.tbl
    BY DEF Stamped
  <2> QED
    BY <2>1, FileTyped, LoadTyped, TableIsSome
<1>2. GoodOnce(Default, Len(versions))
  BY DEF GoodOnce
<1> QED
  BY <1>1, <1>2 DEF LastGood, LoaderReady

\* A version that looks unchanged either is, or an edit was masked.
LEMMA UnchangedFacts ==
  ASSUME FilesTyped, LoaderReady, Exists(file), Unchanged(file)
  PROVE  \/ Load(file) = LastGood
         \/ \E i \in 1..Len(versions) : Alike(i, Len(versions))
<1> DEFINE n == Len(versions)
<1>1. loader.mod # -1 /\ Stamped
  BY FileTyped DEF Unchanged, Exists, LoaderReady
<1>2. PICK k \in 1..n : \E i \in 1..k :
        /\ versions[i].at = loader.mod /\ Size(versions[i].lines) = loader.size
        /\ Load(versions[k]) = loader.tbl
  BY <1>1 DEF Stamped
<1>3. PICK i \in 1..k :
        versions[i].at = loader.mod /\ Size(versions[i].lines) = loader.size
  BY <1>2
<1>4. CASE versions[k] = versions[n]
  BY <1>1, <1>2, <1>4, LastGoodFacts DEF file
<1>5. CASE versions[k] # versions[n]
  <2>1. n \in Nat /\ k \in i..n /\ i \in 1..n
    BY FileTyped
  <2>2. Alike(i, n)
    BY <1>3, <1>5, <2>1 DEF Alike, Unchanged, file
  <2> QED
    BY <2>1, <2>2
<1> QED
  BY <1>4, <1>5

LEMMA StatKeeps ==
  ASSUME FilesTyped, LoaderReady, StatFile
  PROVE  LoaderReady' /\ LoaderServesTheFile'
<1> DEFINE n == Len(versions)
<1>n. n \in Nat /\ n >= 1 /\ versions' = versions /\ file = versions[n]
  BY FileTyped DEF StatFile, file
<1>1. CASE ~Exists(file) \/ Unchanged(file)
  <2>1. /\ loader' = [loader EXCEPT !.tbl = LastGood]
        /\ span' = <<n, n>> /\ ~loader.loading
    BY <1>1 DEF StatFile, Return
  <2>2. /\ loader'.tbl = LastGood /\ loader'.mod = loader.mod /\ loader'.size = loader.size
        /\ loader'.loading = FALSE /\ loader'.stat = loader.stat
        /\ loader' = [mod |-> loader'.mod, size |-> loader'.size, tbl |-> loader'.tbl,
                      loading |-> loader'.loading, stat |-> loader'.stat]
    BY <2>1 DEF LoaderReady
  <2>3. GoodOnce(loader.tbl, n)'
    BY <1>n, <2>2, LastGoodFacts DEF GoodOnce
  <2>4. loader'.mod # -1 => Stamped'
    BY <1>n, <2>2, LastGoodFacts DEF Stamped, LoaderReady
  <2>5. LoaderReady'
    BY <1>n, <2>1, <2>2, <2>3, <2>4 DEF LoaderReady, Answered
  <2>6. UpToDate(LastGood, n, n) \/ \E i \in 1..n : Alike(i, n)
    <3>1. CASE ~Exists(file)
      BY <1>n, <3>1 DEF UpToDate, Seen
    <3>2. CASE Exists(file) /\ Unchanged(file)
      BY <1>n, <3>2, UnchangedFacts DEF UpToDate, Seen
    <3> QED
      BY <1>1, <3>1, <3>2
  <2>7. UpToDate(LastGood, n, n) => UpToDate(loader.tbl, span[1], span[2])'
    BY <1>n, <2>1, <2>2 DEF UpToDate, Seen
  <2>8. (\E i \in 1..n : Alike(i, n)) => Masked'
    BY <1>n, <2>1 DEF Masked, Alike
  <2> QED
    BY <1>n, <2>1, <2>3, <2>5, <2>6, <2>7, <2>8 DEF LoaderServesTheFile
<1>2. CASE ~(~Exists(file) \/ Unchanged(file))
  <2>1. /\ loader' = [loader EXCEPT !.loading = TRUE, !.stat = file]
        /\ span' = <<n, 0>>
    BY <1>2 DEF StatFile
  <2>2. /\ loader'.tbl = loader.tbl /\ loader'.mod = loader.mod /\ loader'.size = loader.size
        /\ loader'.loading = TRUE /\ loader'.stat = file
        /\ loader' = [mod |-> loader'.mod, size |-> loader'.size, tbl |-> loader'.tbl,
                      loading |-> loader'.loading, stat |-> loader'.stat]
    BY <2>1 DEF LoaderReady
  <2>3. LoaderReady'
    BY <1>n, <2>1, <2>2 DEF LoaderReady, GoodOnce, Stamped, Answered
  <2> QED
    BY <2>1, <2>3 DEF LoaderServesTheFile, Answered
<1> QED
  BY <1>1, <1>2

LEMMA ReadKeeps ==
  ASSUME FilesTyped, LoaderReady, ReadFile
  PROVE  LoaderReady' /\ LoaderServesTheFile'
<1> DEFINE n == Len(versions)
           from == span[1]
<1>n. n \in Nat /\ n >= 1 /\ versions' = versions /\ file = versions[n]
  BY FileTyped DEF ReadFile, file
<1>s. from \in 1..n /\ loader.stat = versions[from] /\ loader.stat \in Files
  BY FileTyped DEF ReadFile, LoaderReady
<1>1. span' = <<from, n>> /\ n \in from..n
  BY <1>n, <1>s DEF ReadFile, Return
<1>a. span'[2] = n /\ span'[1] \in 1..n
  BY <1>s, <1>1
<1>2. CASE Loads(file)
  <2>1. loader' = [loader EXCEPT !.mod = loader.stat.at, !.size = Size(loader.stat.lines),
                                 !.tbl = Load(file), !.loading = FALSE, !.stat = Absent]
    BY <1>2 DEF ReadFile
  <2>2. /\ loader'.tbl = Load(file) /\ loader'.mod = loader.stat.at
        /\ loader'.size = Size(loader.stat.lines) /\ loader'.loading = FALSE
        /\ loader' = [mod |-> loader'.mod, size |-> loader'.size, tbl |-> loader'.tbl,
                      loading |-> loader'.loading, stat |-> loader'.stat]
    BY <2>1 DEF LoaderReady
  <2>3. GoodOnce(loader.tbl, n)'
    BY <1>n, <1>2, <2>2 DEF GoodOnce
  <2>4. Stamped'
    BY <1>n, <1>s, <1>1, <1>2, <2>2 DEF Stamped
  <2>5. loader'.mod \in Nat \cup {-1}
    BY <1>s, <2>2 DEF Files
  <2>6. LoaderReady'
    <3>1. loader'.tbl = NoTable \/ GoodOnce(loader.tbl, Len(versions))'
      BY <2>3
    <3>2. span'[2] \in 0..Len(versions') /\ (span'[2] > 0 => span'[1] \in 1..span'[2])
      BY <1>n, <1>a
    <3>3. loader'.loading \in BOOLEAN /\ ~loader'.loading
      BY <2>2
    <3>4. loader'.mod \in Nat \cup {-1}
      BY <2>5
    <3> QED
      BY <2>2, <2>4, <3>1, <3>2, <3>3, <3>4 DEF LoaderReady, Answered
  <2>7. UpToDate(loader.tbl, span[1], span[2])'
    BY <1>n, <1>1, <2>2 DEF UpToDate, Seen
  <2> QED
    BY <1>n, <1>1, <2>3, <2>6, <2>7 DEF LoaderServesTheFile
<1>3. CASE ~Loads(file)
  <2>1. loader' = [loader EXCEPT !.tbl = LastGood, !.loading = FALSE, !.stat = Absent]
    BY <1>3 DEF ReadFile
  <2>2. /\ loader'.tbl = LastGood /\ loader'.mod = loader.mod /\ loader'.size = loader.size
        /\ loader'.loading = FALSE
        /\ loader' = [mod |-> loader'.mod, size |-> loader'.size, tbl |-> loader'.tbl,
                      loading |-> loader'.loading, stat |-> loader'.stat]
    BY <2>1 DEF LoaderReady
  <2>3. GoodOnce(loader.tbl, n)'
    BY <1>n, <2>2, LastGoodFacts DEF GoodOnce
  <2>4. loader'.mod # -1 => Stamped'
    BY <1>n, <2>2, LastGoodFacts DEF Stamped, LoaderReady
  <2>5. LoaderReady'
    <3>1. loader'.tbl = NoTable \/ GoodOnce(loader.tbl, Len(versions))'
      BY <2>3
    <3>2. span'[2] \in 0..Len(versions') /\ (span'[2] > 0 => span'[1] \in 1..span'[2])
      BY <1>n, <1>a
    <3>3. loader'.loading \in BOOLEAN /\ ~loader'.loading
      BY <2>2
    <3>4. loader'.mod \in Nat \cup {-1}
      BY <2>2 DEF LoaderReady
    <3> QED
      BY <2>2, <2>4, <3>1, <3>2, <3>3, <3>4 DEF LoaderReady, Answered
  <2>6. UpToDate(loader.tbl, span[1], span[2])'
    BY <1>n, <1>1, <1>3 DEF UpToDate, Seen
  <2> QED
    BY <1>n, <1>1, <2>3, <2>5, <2>6 DEF LoaderServesTheFile
<1> QED
  BY <1>2, <1>3

----------------------------------------------------------------------------
(* The writers' part.                                                      *)

\* A step of one writer that leaves the file as it is.
LEMMA WriterStep ==
  ASSUME FilesTyped, WritersReady, EditsSurvive, NEW w \in Writers,
         NEW at, NEW edit, NEW table,
         writer' = [writer EXCEPT ![w] = [at |-> at, edit |-> edit, table |-> table]],
         UNCHANGED <<versions, mtime, meant, raced>>,
         at \in {"loaded", "written"} =>
           /\ edit \in Edits /\ IsTable(table)
           /\ ~raced => Loads(file) /\ table = Apply(Load(file), edit)
  PROVE  FilesTyped' /\ WritersReady' /\ EditsSurvive'
<1>0. file' = file
  BY DEF file
<1>1. FilesTyped' /\ EditsSurvive'
  BY <1>0 DEF FilesTyped, EditsSurvive
<1>2. /\ DOMAIN writer = Writers
      /\ writer'[w] = [at |-> at, edit |-> edit, table |-> table]
      /\ \A v \in Writers \ {w} : writer'[v] = writer[v]
      /\ writer' = [v \in Writers |-> writer'[v]]
  BY DEF WritersReady
<1>3. ASSUME NEW v \in Writers
      PROVE  writer'[v] = [at |-> writer'[v].at, edit |-> writer'[v].edit,
                           table |-> writer'[v].table]
  <2>1. CASE v = w
    BY <1>2, <2>1
  <2>2. CASE v # w
    BY <1>2, <2>2 DEF WritersReady
  <2> QED
    BY <2>1, <2>2
<1>4. writer' = [v \in Writers |-> [at |-> writer'[v].at, edit |-> writer'[v].edit,
                                    table |-> writer'[v].table]]
  BY <1>2, <1>3
<1>5. ASSUME NEW v \in Writers PROVE Ready(v)'
  <2>1. CASE v = w
    BY <1>0, <1>2, <2>1 DEF Ready, Busy
  <2>2. CASE v # w
    <3>1. Ready(v) /\ writer'[v] = writer[v]
      BY <1>2, <2>2 DEF WritersReady
    <3> QED
      BY <1>0, <3>1 DEF Ready, Busy
  <2> QED
    BY <2>1, <2>2
<1> QED
  BY <1>1, <1>4, <1>5 DEF WritersReady

\* The file is written while no other writer is under way, or there is a race.
LEMMA WritersAfterChange ==
  ASSUME WritersReady, raced' \in BOOLEAN,
         writer' = [w \in Writers |-> [at |-> writer'[w].at, edit |-> writer'[w].edit,
                                       table |-> writer'[w].table]],
         \A w \in Writers : Busy(w)' => writer'[w] = writer[w] /\ raced'
  PROVE  WritersReady'
<1>1. ASSUME NEW w \in Writers PROVE Ready(w)'
  BY DEF Ready, Busy, WritersReady
<1> QED
  BY <1>1 DEF WritersReady

LEMMA Refused ==
  [Free EXCEPT !.at = "refused"] = [at |-> "refused", edit |-> Free.edit, table |-> Free.table]
  BY DEF Free

LEMMA LoadAndEditKeeps ==
  ASSUME FilesTyped, WritersReady, EditsSurvive, NEW w \in Writers, LoadAndEdit(w)
  PROVE  FilesTyped' /\ WritersReady' /\ EditsSurvive'
<1>1. PICK e \in Edits :
        writer' = [writer EXCEPT ![w] =
                     IF Loads(file) /\ Valid(Apply(Load(file), e))
                     THEN [at |-> "loaded", edit |-> e, table |-> Apply(Load(file), e)]
                     ELSE [Free EXCEPT !.at = "refused"]]
  BY DEF LoadAndEdit
<1>2. CASE Loads(file) /\ Valid(Apply(Load(file), e))
  <2>1. IsTable(Apply(Load(file), e))
    BY <1>2, FileTyped, LoadTyped, ApplyTyped
  <2>2. writer' = [writer EXCEPT ![w] =
                     [at |-> "loaded", edit |-> e, table |-> Apply(Load(file), e)]]
    BY <1>1, <1>2
  <2> QED
    BY <1>2, <2>1, <2>2, WriterStep DEF LoadAndEdit
<1>3. CASE ~(Loads(file) /\ Valid(Apply(Load(file), e)))
  <2>1. writer' = [writer EXCEPT ![w] =
                     [at |-> "refused", edit |-> Free.edit, table |-> Free.table]]
    BY <1>1, <1>3, Refused
  <2> QED
    BY <2>1, WriterStep DEF LoadAndEdit
<1> QED
  BY <1>2, <1>3

LEMMA WriteTempKeeps ==
  ASSUME FilesTyped, WritersReady, EditsSurvive, NEW w \in Writers, WriteTemp(w)
  PROVE  FilesTyped' /\ WritersReady' /\ EditsSurvive'
<1>1. writer' = [writer EXCEPT ![w] = [at |-> "written", edit |-> writer[w].edit,
                                       table |-> writer[w].table]]
  <2>1. writer[w] = [at |-> writer[w].at, edit |-> writer[w].edit, table |-> writer[w].table]
    BY DEF WritersReady
  <2>2. [writer[w] EXCEPT !.at = "written"]
          = [at |-> "written", edit |-> writer[w].edit, table |-> writer[w].table]
    BY <2>1
  <2> QED
    BY <2>2 DEF WriteTemp
<1>2. /\ writer[w].edit \in Edits /\ IsTable(writer[w].table)
      /\ ~raced => Loads(file) /\ writer[w].table = Apply(Load(file), writer[w].edit)
  BY DEF WriteTemp, WritersReady, Busy, Ready
<1>3. UNCHANGED <<versions, mtime, meant, raced>>
  BY DEF WriteTemp
<1> QED
  BY <1>1, <1>2, <1>3, WriterStep

LEMMA SaveFailsKeeps ==
  ASSUME FilesTyped, WritersReady, EditsSurvive, NEW w \in Writers, SaveFails(w)
  PROVE  FilesTyped' /\ WritersReady' /\ EditsSurvive'
<1>1. writer' = [writer EXCEPT ![w] = [at |-> "refused", edit |-> Free.edit,
                                       table |-> Free.table]]
  BY Refused DEF SaveFails, Refuse
<1>2. UNCHANGED <<versions, mtime, meant, raced>>
  BY DEF SaveFails, Refuse
<1> QED
  BY <1>1, <1>2, WriterStep

LEMMA RenameKeeps ==
  ASSUME FilesTyped, WritersReady, EditsSurvive, NEW w \in Writers, Rename(w)
  PROVE  FilesTyped' /\ WritersReady' /\ EditsSurvive'
<1> DEFINE saved == [lines |-> Encode(writer[w].table), at |-> mtime]
<1>1. Busy(w) /\ Ready(w) /\ writer[w].edit \in Edits /\ IsTable(writer[w].table)
  BY DEF Rename, Busy, WritersReady, Ready
<1>2. saved \in Files
  BY <1>1, EncodeTyped DEF Files, FilesTyped
<1>3. FilesTyped' /\ file' = saved
  BY <1>2, BecomeFacts DEF Rename
<1>4. Loads(saved) /\ Load(saved) = writer[w].table
  BY <1>1, RoundTrip DEF FilesTyped
<1>5. EditsSurvive'
  <2> SUFFICES ASSUME ~raced' PROVE Load(saved) = meant'
    BY <1>3 DEF EditsSurvive
  <2>1. ~raced
    BY DEF Rename
  <2>2. Loads(file) /\ writer[w].table = Apply(Load(file), writer[w].edit)
    BY <1>1, <2>1 DEF Ready
  <2>3. Load(file) = meant
    BY <2>1, <2>2 DEF EditsSurvive
  <2> QED
    BY <1>4, <2>2, <2>3 DEF Rename
<1>6. /\ writer'[w] = [Free EXCEPT !.at = "saved"]
      /\ \A v \in Writers \ {w} : writer'[v] = writer[v]
      /\ writer' = [v \in Writers |-> writer'[v]]
  BY DEF Rename, WritersReady
<1>7. writer' = [v \in Writers |-> [at |-> writer'[v].at, edit |-> writer'[v].edit,
                                    table |-> writer'[v].table]]
  <2>1. ASSUME NEW v \in Writers
        PROVE  writer'[v] = [at |-> writer'[v].at, edit |-> writer'[v].edit,
                             table |-> writer'[v].table]
    <3>1. CASE v = w
      BY <1>6, <3>1 DEF Free
    <3>2. CASE v # w
      BY <1>6, <3>2 DEF WritersReady
    <3> QED
      BY <3>1, <3>2
  <2> QED
    BY <1>6, <2>1
<1>8. raced' \in BOOLEAN /\ \A v \in Writers \ {w} : Busy(v) => raced'
  BY DEF Rename, WritersReady
<1>9. \A v \in Writers : Busy(v)' => writer'[v] = writer[v] /\ raced'
  BY <1>6, <1>8 DEF Busy, Free
<1>10. WritersReady'
  BY <1>7, <1>8, <1>9, WritersAfterChange
<1> QED
  BY <1>3, <1>5, <1>10

LEMMA HandKeeps ==
  ASSUME FilesTyped, WritersReady, EditsSurvive, EditByHand \/ RemoveByHand
  PROVE  FilesTyped' /\ WritersReady' /\ EditsSurvive'
<1>1. /\ raced' = (raced \/ \E v \in Writers : Busy(v))
      /\ writer' = writer /\ mtime' = mtime
  BY DEF EditByHand, RemoveByHand
<1>2. WritersReady'
  <2>1. raced' \in BOOLEAN /\ \A w \in Writers : Busy(w)' => writer'[w] = writer[w] /\ raced'
    BY <1>1 DEF WritersReady, Busy
  <2>2. writer' = [w \in Writers |-> [at |-> writer'[w].at, edit |-> writer'[w].edit,
                                      table |-> writer'[w].table]]
    BY <1>1 DEF WritersReady
  <2> QED
    BY <2>1, <2>2, WritersAfterChange
<1>3. CASE EditByHand
  <2>1. PICK lines \in HandEdits :
          /\ Become([lines |-> lines, at |-> mtime])
          /\ meant' = IF \A l \in lines : GoodLine(l)
                      THEN Load([lines |-> lines, at |-> mtime]) ELSE meant
    BY <1>3 DEF EditByHand
  <2> DEFINE f == [lines |-> lines, at |-> mtime]
  <2>2. f \in Files
    BY DEF Files, Lines, FilesTyped
  <2>3. FilesTyped' /\ file' = f
    BY <1>1, <2>1, <2>2, BecomeFacts
  <2>4. EditsSurvive'
    BY <2>1, <2>3 DEF EditsSurvive, Loads
  <2> QED
    BY <1>2, <2>3, <2>4
<1>4. CASE RemoveByHand
  <2>1. Become(Absent) /\ meant' = Default
    BY <1>4 DEF RemoveByHand
  <2>2. Absent \in Files
    BY DEF Files, Absent
  <2>3. FilesTyped' /\ file' = Absent
    BY <1>1, <2>1, <2>2, BecomeFacts
  <2>4. Load(Absent) = Default
    BY DEF Load, Exists, Absent
  <2>5. EditsSurvive'
    BY <2>1, <2>3, <2>4 DEF EditsSurvive
  <2> QED
    BY <1>2, <2>3, <2>5
<1> QED
  BY <1>3, <1>4

\* The loader and the clock leave the writers and the file alone.
LEMMA OthersKeep ==
  ASSUME FilesTyped, WritersReady, EditsSurvive, mtime' \in Nat,
         UNCHANGED <<versions, writer, meant, raced>>
  PROVE  FilesTyped' /\ WritersReady' /\ EditsSurvive'
<1>1. file' = file
  BY DEF file
<1>2. FilesTyped' /\ EditsSurvive'
  BY <1>1 DEF FilesTyped, EditsSurvive
<1>3. \A w \in Writers : Ready(w)'
  BY <1>1 DEF WritersReady, Ready, Busy
<1> QED
  BY <1>2, <1>3 DEF WritersReady

----------------------------------------------------------------------------
(* Together.                                                               *)

LEMMA InitHolds ==
  ASSUME PriceInit
  PROVE  PriceInv
<1>1. FilesTyped
  <2>1. Absent \in Files
    BY DEF Files, Absent
  <2> QED
    BY <2>1 DEF PriceInit, FilesTyped
<1>2. file = Absent /\ Load(Absent) = Default
  BY DEF PriceInit, file, Load, Exists, Absent
<1>3. EditsSurvive
  BY <1>2 DEF PriceInit, EditsSurvive
<1>4. WritersReady
  BY DEF PriceInit, WritersReady, Ready, Busy, Free
<1>5. LoaderReady /\ LoaderServesTheFile
  BY DEF PriceInit, LoaderReady, LoaderServesTheFile, Answered
<1> QED
  BY <1>1, <1>3, <1>4, <1>5 DEF PriceInv

\* A step that is not the loader's leaves it alone and adds at most a version.
LEMMA VersionsGrow ==
  ASSUME FilesTyped, FilesTyped', NEW f,
         versions' = versions \/ Become(f)
  PROVE  /\ Len(versions') \in Nat /\ Len(versions') >= Len(versions)
         /\ \A i \in 1..Len(versions) : versions'[i] = versions[i]
  BY DEF FilesTyped, Become

LEMMA NextKeeps ==
  ASSUME PriceInv, [PriceNext]_priceVars
  PROVE  PriceInv'
<1> USE DEF PriceInv
<1>w. ASSUME FilesTyped' /\ WritersReady' /\ EditsSurvive', UNCHANGED <<loader, span>>,
             \E f : versions' = versions \/ Become(f)
      PROVE  PriceInv'
  <2>1. PICK f : versions' = versions \/ Become(f)
    BY <1>w
  <2>2. /\ Len(versions') \in Nat /\ Len(versions') >= Len(versions)
        /\ \A i \in 1..Len(versions) : versions'[i] = versions[i]
    BY <1>w, <2>1, VersionsGrow
  <2> QED
    BY <1>w, <2>2, LoaderKept
<1>1. ASSUME NEW w \in Writers, LoadAndEdit(w) PROVE PriceInv'
  BY <1>1, <1>w, LoadAndEditKeeps DEF LoadAndEdit
<1>2. ASSUME NEW w \in Writers, WriteTemp(w) PROVE PriceInv'
  BY <1>2, <1>w, WriteTempKeeps DEF WriteTemp
<1>3. ASSUME NEW w \in Writers, Rename(w) PROVE PriceInv'
  BY <1>3, <1>w, RenameKeeps DEF Rename
<1>4. ASSUME NEW w \in Writers, SaveFails(w) PROVE PriceInv'
  BY <1>4, <1>w, SaveFailsKeeps DEF SaveFails, Refuse
<1>5. CASE EditByHand
  BY <1>5, <1>w, HandKeeps DEF EditByHand
<1>6. CASE RemoveByHand
  BY <1>6, <1>w, HandKeeps DEF RemoveByHand
<1>7. CASE MtimePasses
  <2>1. mtime' \in Nat /\ UNCHANGED <<versions, writer, meant, raced, loader, span>>
    BY <1>7 DEF MtimePasses, FilesTyped
  <2> QED
    BY <1>w, <2>1, OthersKeep
<1>8. CASE StatFile
  <2>1. mtime' \in Nat /\ UNCHANGED <<versions, writer, meant, raced>>
    BY <1>8 DEF StatFile, FilesTyped
  <2> QED
    BY <1>8, <2>1, OthersKeep, StatKeeps
<1>9. CASE ReadFile
  <2>1. mtime' \in Nat /\ UNCHANGED <<versions, writer, meant, raced>>
    BY <1>9 DEF ReadFile, FilesTyped
  <2> QED
    BY <1>9, <2>1, OthersKeep, ReadKeeps
<1>10. CASE UNCHANGED priceVars
  <2>1. mtime' \in Nat /\ UNCHANGED <<versions, writer, meant, raced, loader, span>>
    BY <1>10 DEF priceVars, FilesTyped
  <2> QED
    BY <1>w, <2>1, OthersKeep
<1> QED
  BY <1>1, <1>2, <1>3, <1>4, <1>5, <1>6, <1>7, <1>8, <1>9, <1>10 DEF PriceNext

LEMMA PriceInvariant == PriceSpec => []PriceInv
<1>1. PriceInit => PriceInv
  BY InitHolds
<1>2. PriceInv /\ [PriceNext]_priceVars => PriceInv'
  BY NextKeeps
<1> QED
  BY <1>1, <1>2, PTL DEF PriceSpec

\* Edits that do not overlap add up for any writers, edits and hand edits:
\* the file read back is the table they were meant to leave.
THEOREM EditsAlwaysSurvive == PriceSpec => []EditsSurvive
<1>1. PriceInv => EditsSurvive
  BY DEF PriceInv
<1> QED
  BY <1>1, PriceInvariant, PTL

\* Every answer of Table is a table the file held whole, and the one it held
\* while it was looked at unless the file is gone, does not parse, or was
\* changed with its time and size left as they were.
THEOREM LoaderAlwaysServes == PriceSpec => []LoaderServesTheFile
<1>1. PriceInv => LoaderServesTheFile
  BY DEF PriceInv
<1> QED
  BY <1>1, PriceInvariant, PTL

----------------------------------------------------------------------------
(* The costs.                                                              *)

LEMMA Doubling ==
  ASSUME NEW a \in Nat, NEW b \in Nat
  PROVE  a * b \in Nat /\ a * (b * 1) = a * b /\ a * (b * 2) = 2 * (a * b)
  OBVIOUS

\* The unrounded total is linear in the multiplier.
LEMMA TotalFacts ==
  ASSUME NEW usage \in [Fields -> Nat], NEW rates \in [Fields -> Rates],
         rates["input"] # Unset
  PROVE  /\ Total(usage, rates, 1) \in Nat
         /\ Total(usage, rates, 2) = Total(usage, rates, 1) * 2
<1> DEFINE Part(f) == usage[f] * RateOf(rates, f)
<1>1. ASSUME NEW f \in Fields
      PROVE  /\ Part(f) \in Nat
             /\ usage[f] * (RateOf(rates, f) * 1) = Part(f)
             /\ usage[f] * (RateOf(rates, f) * 2) = 2 * Part(f)
  <2>1. usage[f] \in Nat /\ RateOf(rates, f) \in Nat
    BY DEF RateOf, Rates, Fields
  <2> QED
    BY <2>1, Doubling
<1>2. {"input", "output", "cache_read", "cache_write"} = Fields
  BY DEF Fields
<1> HIDE DEF Part
<1>3. /\ Total(usage, rates, 1) = Part("input") + Part("output") + Part("cache_read")
                                    + Part("cache_write")
      /\ Total(usage, rates, 2) = 2 * Part("input") + 2 * Part("output")
                                    + 2 * Part("cache_read") + 2 * Part("cache_write")
  BY <1>1, <1>2 DEF Total
<1> QED
  BY <1>1, <1>2, <1>3

\* The cost of one call from any table there can be.
LEMMA CostOfOne ==
  ASSUME NEW t, IsTable(t), NEW b \in Billed
  PROVE  LET cost == Compute(b.model, b.usage, t, b.at, Calendar)
             known == b.model \in DOMAIN t
             rates == t[b.model]
             exact == Total(b.usage, rates, 1) * (IF BeijingPeak(Calendar, b.at) THEN 2 ELSE 1)
         IN
         /\ (cost.amount = NoAmount) <=> (~known \/ rates["input"] = Unset)
         /\ (cost.source = "unknown-model") <=> ~known
         /\ cost.amount # NoAmount =>
              /\ 2 * (Den * cost.amount - exact) \in (1 - Den)..Den
              /\ (cost.source = "configured") <=>
                   \A f \in Fields : b.usage[f] > 0 => rates[f] # Unset
<1> DEFINE cost == Compute(b.model, b.usage, t, b.at, Calendar)
           rates == t[b.model]
           k == IF IsPeak(Calendar, b.at) THEN 2 ELSE 1
           n == Total(b.usage, rates, k)
<1>1. CASE b.model \notin DOMAIN t
  BY <1>1 DEF Compute, NoAmount
<1>2. CASE b.model \in DOMAIN t /\ rates["input"] = Unset
  BY <1>2 DEF Compute, NoAmount, Source
<1>3. CASE b.model \in DOMAIN t /\ rates["input"] # Unset
  <2>1. cost = [amount |-> RoundHalfUp(n),
                source |-> IF Approximate(b.usage, rates) THEN "approximate" ELSE "configured"]
    BY <1>3 DEF Compute, Source, PeakMultiplier
  <2>2. b.usage \in [Fields -> Nat] /\ b.at \in Nat /\ rates \in [Fields -> Rates]
    BY <1>3 DEF IsTable
  <2>3. n = Total(b.usage, rates, 1) * (IF BeijingPeak(Calendar, b.at) THEN 2 ELSE 1) /\ n \in Nat
    <3>1. IsPeak(Calendar, b.at) <=> BeijingPeak(Calendar, b.at)
      BY <2>2, UtcAndBeijingAgree
    <3>2. /\ Total(b.usage, rates, 1) \in Nat
          /\ Total(b.usage, rates, 2) = Total(b.usage, rates, 1) * 2
      BY <1>3, <2>2, TotalFacts
    <3> QED
      BY <3>1, <3>2
  <2>4. RoundHalfUp(n) \in Nat /\ 2 * (Den * RoundHalfUp(n) - n) \in (1 - Den)..Den
    BY <2>3, RoundingIsNearest
  <2>5. Approximate(b.usage, rates) <=> ~ \A f \in Fields : b.usage[f] > 0 => rates[f] # Unset
    BY <2>2 DEF Approximate
  <2> DEFINE exact == Total(b.usage, rates, 1) * (IF BeijingPeak(Calendar, b.at) THEN 2 ELSE 1)
  <2>6. /\ cost.amount \in Nat /\ 2 * (Den * cost.amount - exact) \in (1 - Den)..Den
        /\ cost.source # "unknown-model"
        /\ cost.source = "configured" <=> ~Approximate(b.usage, rates)
    <3>1. cost.amount = RoundHalfUp(n) /\ n = exact
      BY <2>1, <2>3
    <3>2. cost.source = IF Approximate(b.usage, rates) THEN "approximate" ELSE "configured"
      BY <2>1
    <3> HIDE DEF cost, exact, n
    <3> QED
      BY <2>4, <3>1, <3>2
  <2>7. cost.amount # NoAmount
    BY <2>6 DEF NoAmount
  <2> HIDE DEF cost, exact
  <2> SUFFICES /\ (cost.amount = NoAmount) <=> (b.model \notin DOMAIN t \/ rates["input"] = Unset)
               /\ (cost.source = "unknown-model") <=> b.model \notin DOMAIN t
               /\ cost.amount # NoAmount =>
                    /\ 2 * (Den * cost.amount - exact) \in (1 - Den)..Den
                    /\ (cost.source = "configured") <=>
                         \A f \in Fields : b.usage[f] > 0 => rates[f] # Unset
    BY DEF cost, exact
  <2> QED
    BY <1>3, <2>5, <2>6, <2>7
<1> QED
  BY <1>1, <1>2, <1>3

\* Whatever the file, the calendar and the calls are: a cost is computed from
\* a table the file held, and is the nearest micro-dollar of it.
THEOREM CostAlwaysHonest == PriceSpec => []CostHonest
<1>1. PriceInv => CostHonest
  <2> SUFFICES ASSUME PriceInv, Answered PROVE CostHonest
    BY DEF CostHonest
  <2>1. span[2] \in 0..Len(versions) /\ GoodOnce(loader.tbl, span[2])
    BY DEF PriceInv, LoaderReady, LoaderServesTheFile
  <2>2. IsTable(loader.tbl)
    BY <2>1, GoodIsTable DEF PriceInv
  <2> QED
    BY <2>2, CostOfOne DEF CostHonest
<1> QED
  BY <1>1, PriceInvariant, PTL
=============================================================================
