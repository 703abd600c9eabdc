----------------------------- MODULE PriceFile ------------------------------
(***************************************************************************)
(* The price file (internal/pricing/table.go), those who write it, POST    *)
(* /api/prices and `lens prices`, and the loader through which the         *)
(* consumer prices every call.                                             *)
(*                                                                         *)
(* Concurrency.  Each writer is a request or a process; no lock orders     *)
(* them.  One action is one use of the file: reading it, writing the       *)
(* temporary file, renaming it over the target.  An editor writes in       *)
(* place.  The loader's stat and its read are two steps.                   *)
(*                                                                         *)
(* Data.  The file is a set of lines and has a modification time of some   *)
(* granularity; its size counts lines, so files differ in content and not  *)
(* in size as real ones do when one digit replaces another.  What a writer *)
(* prints when it is done is a read and left out.                          *)
(***************************************************************************)
EXTENDS Pricing, Sequences

CONSTANTS
  Writers,    \* uses of the route or the command, one edit each
  Edits,      \* what they ask for
  HandEdits,  \* what an editor may leave in the file
  MaxHand,    \* bound: times it does
  MaxMtime,   \* bound: modification times are 0 .. MaxMtime
  Billed,     \* calls to price: [model, usage, at]
  Calendar    \* the date sets serve was started with: [offPeak, work]

VARIABLES
  versions,  \* all states of the file in order, the last one on disk
  mtime,     \* the modification time a write now would get
  hands,     \* edits by hand so far
  writer,    \* each writer: [at, edit, table]
  loader,    \* Loader: [mod, size, tbl, loading, stat]
  span,     \* history: the span of versions the last Table call saw
  stale,     \* history: Table calls in a row that answered a table out of date (to 2)
  meant,     \* history: the table the edits made so far add up to
  raced      \* history: an edit was made while another was under way

priceVars == <<versions, mtime, hands, writer, loader, span, stale, meant, raced>>

----------------------------------------------------------------------------
(* The file and the table.                                                 *)

ShippedModels == {"pro", "flash"}
Default == [m \in ShippedModels |-> NoRates]
NoTable == [m \in {} |-> NoRates]

\* A line sets one rate, or names a model that has none.
Bare == ""
Line(model, field, rate) == [model |-> model, field |-> field, rate |-> rate]

Absent == [lines |-> {}, at |-> -1]
Exists(file) == file.at >= 0
Size(lines) == [m \in {l.model : l \in lines} |->
                  {f \in Fields : \E l \in lines : l.model = m /\ l.field = f}]

\* CheckModel, CheckRate.
NotAModel == "not a model"
GoodModel(m) == m # NotAModel
GoodRate(r) == r >= 0

GoodLine(l) ==
  /\ GoodModel(l.model)
  /\ l.field \in Fields \cup {Bare}
  /\ l.field # Bare => GoodRate(l.rate)

ParseTable(lines) ==
  [m \in {l.model : l \in lines} |->
     [f \in Fields |->
        IF \E l \in lines : l.model = m /\ l.field = f
        THEN (CHOOSE l \in lines : l.model = m /\ l.field = f).rate
        ELSE Unset]]

Layer(table, defaults) ==
  [m \in DOMAIN table \cup DOMAIN defaults |->
     IF m \in DOMAIN table THEN table[m] ELSE defaults[m]]

\* No table is loaded from a file with a bad line, all of one from any other.
Loads(file) == \A l \in file.lines : GoodLine(l)
Load(file) == IF Exists(file) THEN Layer(ParseTable(file.lines), Default) ELSE Default

\* What Save refuses before it writes.
Valid(table) ==
  \A m \in DOMAIN table :
    GoodModel(m) /\ \A f \in Fields : table[m][f] # Unset => GoodRate(table[m][f])

\* [mutant] a model without rates is not written
EncodeRatesOnly(table) ==
  {l \in {Line(m, f, table[m][f]) : m \in DOMAIN table, f \in Fields} : l.rate # Unset}

Encode(table) ==
  UNION {IF table[m] = NoRates THEN {Line(m, Bare, Unset)}
         ELSE {Line(m, f, table[m][f]) : f \in {g \in Fields : table[m][g] # Unset}} :
           m \in DOMAIN table}

----------------------------------------------------------------------------
(* The edits: one rate, a model back to unpriced, one model's rates whole. *)

RatesIn(table, m) == IF m \in DOMAIN table THEN table[m] ELSE NoRates

Put(table, m, rates) == Layer([x \in {m} |-> rates], table)

RatesAfter(table, edit) ==
  CASE edit.op = "set"  -> [RatesIn(table, edit.model) EXCEPT ![edit.field] = edit.rate]
    [] edit.op = "post" -> edit.rates
    [] OTHER            -> NoRates

Apply(table, edit) == Put(table, edit.model, RatesAfter(table, edit))

----------------------------------------------------------------------------
(* The writers.                                                            *)

\* What the route and the command take for an edit before they check it, the
\* lines a file may have, and the calls there are.
PriceAssumption ==
  /\ \A e \in Edits :
       \/ e.op = "set" /\ e.field \in Fields /\ e.rate \in Int
       \/ e.op = "unset"
       \/ e.op = "post" /\ e.rates \in [Fields -> Int]
  /\ \A lines \in HandEdits : \A l \in lines : l.rate \in Int
  /\ \A b \in Billed : b.usage \in [Fields -> Nat] /\ b.at \in Nat

ASSUME PriceInputs == PriceAssumption

Free == [at |-> "idle", edit |-> [op |-> "none"], table |-> Default]

PriceInit ==
  /\ versions = <<Absent>> /\ mtime = 0 /\ hands = 0
  /\ writer = [w \in Writers |-> Free]
  /\ loader = [mod |-> -1, size |-> Size({}), tbl |-> NoTable, loading |-> FALSE, stat |-> Absent]
  /\ span = <<1, 0>> /\ stale = 0
  /\ meant = Default /\ raced = FALSE

file == versions[Len(versions)]

Busy(w) == writer[w].at \in {"loaded", "written"}

Become(f) == versions' = Append(versions, f)

\* Load, the edit, and the checks of the edit and of Save.
LoadAndEdit(w) ==
  /\ writer[w].at = "idle"
  /\ \E e \in Edits :
       LET table == Apply(Load(file), e)
           go == Loads(file) /\ Valid(table)
       IN  writer' = [writer EXCEPT ![w] =
                        IF go THEN [at |-> "loaded", edit |-> e, table |-> table]
                        ELSE [Free EXCEPT !.at = "refused"]]
  /\ UNCHANGED <<versions, mtime, hands, loader, span, stale, meant, raced>>

Refuse(w) ==
  /\ writer' = [writer EXCEPT ![w] = [Free EXCEPT !.at = "refused"]]
  /\ UNCHANGED <<versions, mtime, hands, loader, span, stale, meant, raced>>

\* The temporary file created, written, synced and closed.
WriteTemp(w) ==
  /\ writer[w].at = "loaded"
  /\ writer' = [writer EXCEPT ![w].at = "written"]
  /\ UNCHANGED <<versions, mtime, hands, loader, span, stale, meant, raced>>

Rename(w) ==
  /\ writer[w].at = "written"
  /\ Become([lines |-> Encode(writer[w].table), at |-> mtime])
  /\ writer' = [writer EXCEPT ![w] = [Free EXCEPT !.at = "saved"]]
  /\ meant' = Apply(meant, writer[w].edit)
  /\ raced' = (raced \/ \E v \in Writers \ {w} : Busy(v))
  /\ UNCHANGED <<mtime, hands, loader, span, stale>>

\* A step of Save failed, and the temporary file is removed; or the process
\* died and it stays, read by nobody.
SaveFails(w) == Busy(w) /\ Refuse(w)

\* `lens prices --edit`, or anybody's editor; no lines is a file cut short.
EditByHand ==
  /\ hands < MaxHand /\ hands' = hands + 1
  /\ \E lines \in HandEdits :
       /\ Become([lines |-> lines, at |-> mtime])
       /\ meant' = IF \A l \in lines : GoodLine(l)
                   THEN Load([lines |-> lines, at |-> mtime]) ELSE meant
  /\ raced' = (raced \/ \E v \in Writers : Busy(v))
  /\ UNCHANGED <<mtime, writer, loader, span, stale>>

RemoveByHand ==
  /\ hands < MaxHand /\ hands' = hands + 1
  /\ Exists(file) /\ Become(Absent) /\ meant' = Default
  /\ raced' = (raced \/ \E v \in Writers : Busy(v))
  /\ UNCHANGED <<mtime, writer, loader, span, stale>>

\* Time enough for the file system to tell two writes apart.
MtimePasses ==
  /\ mtime < MaxMtime /\ mtime' = mtime + 1
  /\ UNCHANGED <<versions, hands, writer, loader, span, stale, meant, raced>>

----------------------------------------------------------------------------
(* The loader: Table, called for every call the consumer prices.           *)

Seen(from, to) == {versions[i] : i \in from..to}

\* The table is one of a file the call could have read, or there was none.
UpToDate(tbl, from, to) ==
  \E f \in Seen(from, to) : ~Exists(f) \/ ~Loads(f) \/ Load(f) = tbl

Return(tbl, from) ==
  /\ span' = <<from, Len(versions)>>
  /\ stale' = IF UpToDate(tbl, from, Len(versions)) THEN 0
              ELSE IF stale = 2 THEN 2 ELSE stale + 1

LastGood == IF loader.tbl = NoTable THEN Default ELSE loader.tbl

\* [mutant] the size is not compared
UnchangedMtimeOnly(f) == loader.tbl # NoTable /\ f.at = loader.mod

Unchanged(f) ==
  /\ loader.tbl # NoTable
  /\ f.at = loader.mod
  /\ Size(f.lines) = loader.size

\* The stat, and the answer when there is nothing to read.
StatFile ==
  /\ ~loader.loading
  /\ IF ~Exists(file) \/ Unchanged(file)
     THEN /\ loader' = [loader EXCEPT !.tbl = LastGood]
          /\ Return(LastGood, Len(versions))
     ELSE /\ loader' = [loader EXCEPT !.loading = TRUE, !.stat = file]
          /\ span' = <<Len(versions), 0>>
          /\ UNCHANGED stale
  /\ UNCHANGED <<versions, mtime, hands, writer, meant, raced>>

\* The read.  A file that does not parse leaves the last good table and the
\* stamp of the file it came from.
ReadFile ==
  /\ loader.loading
  /\ LET good == [loader EXCEPT !.mod = loader.stat.at, !.size = Size(loader.stat.lines),
                                !.tbl = Load(file), !.loading = FALSE, !.stat = Absent]
         kept == [loader EXCEPT !.tbl = LastGood, !.loading = FALSE, !.stat = Absent]
     IN  loader' = IF Loads(file) THEN good ELSE kept
  /\ Return(loader'.tbl, span[1])
  /\ UNCHANGED <<versions, mtime, hands, writer, meant, raced>>

----------------------------------------------------------------------------
PriceNext ==
  \/ \E w \in Writers : LoadAndEdit(w) \/ WriteTemp(w) \/ Rename(w) \/ SaveFails(w)
  \/ EditByHand \/ RemoveByHand \/ MtimePasses
  \/ StatFile \/ ReadFile

PriceSpec == PriceInit /\ [][PriceNext]_priceVars
----------------------------------------------------------------------------
(* Properties.                                                             *)

Answered == span[2] > 0

\* A version the loader cannot tell from one before it, though the file has
\* been another since.
Alike(i, j) ==
  /\ versions[i].at = versions[j].at
  /\ Size(versions[i].lines) = Size(versions[j].lines)
  /\ \E k \in i..j : versions[k] # versions[j]

Masked == \E j \in span[1]..span[2] : \E i \in 1..j : Alike(i, j)

GoodOnce(tbl, upto) ==
  tbl = Default \/ \E i \in 1..upto : Loads(versions[i]) /\ Load(versions[i]) = tbl

\* A call is priced from a table the file held while the loader looked at it,
\* whatever is written meanwhile: only a file that is gone or does not parse,
\* or an edit that leaves time and size as they were, makes it an older one,
\* and then it is one that was good once.
LoaderServesTheFile ==
  Answered =>
    /\ GoodOnce(loader.tbl, span[2])
    /\ UpToDate(loader.tbl, span[1], span[2]) \/ Masked

\* Edits that do not overlap add up, across crashes and refusals at any
\* point: the file never loses a rate, never holds half of an edit, and a
\* model once named in it stays known when its rates are taken back.
EditsSurvive == ~raced /\ Loads(file) => Load(file) = meant

\* An amount is there exactly when the model has an input rate, is the exact
\* cost rounded once to the nearest micro-dollar, twice the off-peak cost
\* inside Beijing's working-day windows, and says so when a category with
\* tokens was billed at a rate nobody configured for it.
CostHonest ==
  Answered =>
    \A b \in Billed :
      LET cost == Compute(b.model, b.usage, loader.tbl, b.at, Calendar)
          known == b.model \in DOMAIN loader.tbl
          rates == loader.tbl[b.model]
          exact == Total(b.usage, rates, 1) * (IF BeijingPeak(Calendar, b.at) THEN 2 ELSE 1)
      IN
      /\ (cost.amount = NoAmount) <=> (~known \/ rates["input"] = Unset)
      /\ (cost.source = "unknown-model") <=> ~known
      /\ cost.amount # NoAmount =>
           /\ 2 * (Den * cost.amount - exact) \in (1 - Den)..Den
           /\ (cost.source = "configured") <=>
                \A f \in Fields : b.usage[f] > 0 => rates[f] # Unset

\* table.go's bound on a missed edit: "the worst case (an edit that lands
\* inside the filesystem's mtime granularity and preserves the size) is one
\* stale table until the next call".
OneStaleTable == stale <= 1
=============================================================================
