---------------------------- MODULE UdefMessages -----------------------------
(***************************************************************************)
(* packages/data-udef/src: the chain of handlers a message passes through, *)
(* and the path of versions it is transformed along.                       *)
(***************************************************************************)
EXTENDS Integers, SequencesExt

(***************************************************************************)
(* MessageProcessor and BuiltinMiddleware of packages/data-udef: one       *)
(* process() runs the middlewares one inside the other; each gets a next() *)
(* that may be called once, and is called for the one that does not.       *)
(***************************************************************************)

CONSTANTS ChainKinds,    \* bound: the middlewares in use, by what their functions do
          MaxLinks,      \* bound: middlewares of the processor
          ChainRetries   \* maxRetries of the retry middleware

MessageChainAssumption == ChainRetries \in Nat

VARIABLE mp

\* frames: the middlewares that run, the innermost last, each with: called, its next() was
\* called; at, the await its function is at; tries, of the retry middleware.  sig: what the
\* innermost is told: "go", or how the next() it waits for has settled.  error and skip are of
\* the context.  told: the outcome of process().  History: entered, how often each function
\* was called; threw, the errors in the order they were thrown; cached, the cache middlewares
\* whose cache.set() was done
Frame(i) == [link |-> i, called |-> FALSE, at |-> "start", tries |-> 0]
ChainNone == "none"

ChainInit ==
  \E n \in 1..MaxLinks : \E chain \in [1..n -> ChainKinds], skips \in BOOLEAN :
    mp = [chain |-> chain, skipOnError |-> skips, frames |-> <<Frame(1)>>, sig |-> "go",
          error |-> ChainNone, skip |-> FALSE, told |-> "running",
          entered |-> [i \in 1..n |-> 0], threw |-> <<>>, cached |-> {}]

Top == mp.frames[Len(mp.frames)]
Kind == mp.chain[Top.link]

\* Mutant of Calls: next() does not remember that it was called.
CallsAgain(m, at) ==
  LET k == Len(m.frames)
      f == m.frames[k]
      g == [f EXCEPT !.at = at] IN
  IF f.link = Len(m.chain) \/ m.skip
    THEN [m EXCEPT !.frames[k] = g, !.sig = "ok"]
  ELSE [m EXCEPT !.frames = Append([@ EXCEPT ![k] = g], Frame(f.link + 1)), !.sig = "go"]

\* next() of the innermost middleware, which then waits at at; executeMiddleware() of the
\* following one begins
Calls(m, at) ==
  LET k == Len(m.frames)
      f == m.frames[k]
      g == [f EXCEPT !.at = at, !.called = TRUE] IN
  IF f.called
    THEN [m EXCEPT !.frames[k].at = at, !.sig = "multiple", !.threw = Append(@, "multiple")]
  ELSE IF f.link = Len(m.chain) \/ m.skip
    THEN [m EXCEPT !.frames[k] = g, !.sig = "ok"]
  ELSE [m EXCEPT !.frames = Append([@ EXCEPT ![k] = g], Frame(f.link + 1)), !.sig = "go"]

\* executeMiddleware() of the innermost one settles
Leaves(m, sig) == [m EXCEPT !.frames = SubSeq(@, 1, Len(@) - 1), !.sig = sig]

\* Mutant of Throws: with skipOnError the error is not put into the context.
ThrowsQuietly(m, err) ==
  IF m.skipOnError THEN Leaves([m EXCEPT !.skip = TRUE], "ok")
  ELSE Leaves(m, err)

\* the function, or the next() called for it, throws
Throws(m, err) ==
  IF m.skipOnError THEN Leaves([m EXCEPT !.error = err, !.skip = TRUE], "ok")
  ELSE Leaves(m, err)

\* Mutant of Returns: next() is not called for a middleware that did not.
ReturnsWithoutNext(m) == Leaves(m, "ok")

\* the function returns
Returns(m) ==
  IF ~m.frames[Len(m.frames)].called /\ ~m.skip /\ m.error = ChainNone
  THEN Calls(m, "auto") ELSE Leaves(m, "ok")

Thrown(m, err) == [m EXCEPT !.threw = Append(@, err)]

\* The function is called: from its first line to its first await of next(), or to its end.
\* "around" stands for the ones that only wrap next() (logging, metrics, parallel, when),
\* "silent" for one that returns without calling it.
Starts ==
  /\ mp.frames # <<>> /\ Top.at = "start" /\ mp.sig = "go"
  /\ LET m == [mp EXCEPT !.entered[Top.link] = @ + 1] IN
     \/ Kind \in {"around", "retry", "errorHandler"} /\ mp' = Calls(m, "next")
     \/ Kind = "silent" /\ mp' = Returns(m)
     \/ Kind = "throws" /\ mp' = Throws(Thrown(m, "app"), "app")
     \/ Kind = "validation" /\ mp' = Calls(m, "next")
     \/ Kind = "validation"
        /\ mp' = Throws([Thrown(m, "invalid") EXCEPT !.error = "invalid"], "invalid")
     \/ Kind = "cache" /\ mp' = Calls(m, "next")        \* a miss
     \/ Kind = "cache" /\ mp' = Returns(m)              \* a hit
     \/ Kind = "cache" /\ mp' = Calls(m, "fallback")    \* cache.get() fails

Settled == mp.frames # <<>> /\ mp.sig # "go" /\ Top.at # "start"

\* next() has resolved
Resumes ==
  /\ Settled /\ mp.sig = "ok"
  /\ \/ Top.at = "auto" /\ mp' = Leaves(mp, "ok")
     \/ Top.at # "auto" /\ (Kind # "cache" \/ Top.at = "fallback" \/ mp.error # ChainNone)
        /\ mp' = Returns(mp)
     \/ Top.at = "next" /\ Kind = "cache" /\ mp.error = ChainNone
        /\ \/ mp' = Returns([mp EXCEPT !.cached = @ \cup {Top.link}])
           \/ mp' = Calls(Thrown(mp, "cache"), "fallback")  \* cache.set() fails

\* next() has rejected
Catches ==
  /\ Settled /\ mp.sig # "ok"
  /\ LET again == Kind = "retry" /\ Top.tries < ChainRetries IN
     \/ (Top.at \in {"auto", "fallback"} \/ Kind = "around" \/ (Kind = "retry" /\ ~again))
        /\ mp' = Throws(mp, mp.sig)
     \/ Top.at = "next" /\ Kind = "validation"
        /\ mp' = Throws([mp EXCEPT !.error = mp.sig], mp.sig)
     \/ Top.at = "next" /\ again
        /\ mp' = Calls([mp EXCEPT !.frames[Len(mp.frames)].tries = @ + 1], "next")
     \/ Top.at = "next" /\ Kind = "cache" /\ mp' = Calls(mp, "fallback")
     \* continueOnError or not
     \/ Top.at = "next" /\ Kind = "errorHandler"
        /\ \/ mp' = Throws([mp EXCEPT !.error = mp.sig], mp.sig)
           \/ mp' = Returns([mp EXCEPT !.error = mp.sig])

\* process() is told
Outcome(m) ==
  IF m.sig # "ok" THEN m.sig ELSE IF m.error # ChainNone THEN m.error ELSE "success"
Ends ==
  /\ mp.frames = <<>> /\ mp.told = "running"
  /\ mp' = [mp EXCEPT !.told = Outcome(mp)]

\* The timeout wins the race; the chain goes on all the same.
TimesOut == mp.told = "running" /\ mp.frames # <<>> /\ mp' = [mp EXCEPT !.told = "timeout"]

ChainNext == Starts \/ Resumes \/ Catches \/ Ends \/ TimesOut

ChainSpec == ChainInit /\ [][ChainNext]_mp

-----------------------------------------------------------------------------
(* Properties.                                                             *)

\* The middlewares that take it upon them to deal with what next() throws.  They are modelled,
\* and what the next two properties say is not said of chains that have one: a retry tries
\* nothing again and a cache's error is not kept to itself, as the second next() throws, and
\* continueOnError leaves the error in the context.
ErrorHandling == {"retry", "cache", "errorHandler"}
Unhandled == ToSet(mp.chain) \cap ErrorHandling = {}

\* Where nobody handles errors, process() succeeds only if every function was called once, also
\* those after one that did not call next(), and none threw: skipOnError hides no error.
SuccessIsWhole ==
  mp.told = "success" /\ Unhandled =>
    mp.threw = <<>> /\ \A i \in DOMAIN mp.entered : mp.entered[i] = 1

\* Where nobody handles errors, a failure tells the one error that was thrown, and the functions
\* called are the first of the chain, each once.
FirstErrorIsTold ==
  mp.told \notin {"running", "success", "timeout"} /\ Unhandled =>
    /\ mp.threw = <<mp.told>>
    /\ \E n \in DOMAIN mp.entered :
         \A i \in DOMAIN mp.entered : mp.entered[i] = IF i <= n THEN 1 ELSE 0

\* An outcome is cached only if everything inside the cache middleware ran and nothing had
\* been thrown: what can still fail then is the cache.set() of one around it.
CachedIsWhole ==
  \A i \in mp.cached :
    /\ \A j \in DOMAIN mp.entered : j > i => mp.entered[j] = 1
    /\ mp.threw # <<>> => mp.threw[1] = "cache"

-----------------------------------------------------------------------------
(***************************************************************************)
(* VersionTransformer of packages/data-udef/src/versioning/                *)
(* version-transformer.ts: a message is taken from version to version,     *)
(* each step by the rules there are for it when its turn comes, while      *)
(* rules are being added.                                                  *)
(***************************************************************************)

CONSTANTS Versions,    \* versions of schemas, in the order of their numbers
          Fields,      \* fields of a message
          MaxRules     \* bound: rules that are added

VersionAssumption == Versions \in Nat \ {0} /\ MaxRules \in Nat

VARIABLE vt

VersionNone == "none"

\* A field that is renamed to itself is removed, as by remove_field.
FieldRules ==
  [type : {"add_field", "remove_field"}, from : Fields, to : {VersionNone}]
    \cup {r \in [type : {"rename_field"}, from : Fields, to : Fields] : r.from # r.to}

\* rules: the migration rules, each of one field rule; data: the value of each field
\* there is, the name it had at first; at: idle, moving, done or failed; start, path,
\* pos: of the message that moves.  History: applied, the steps whose rules were
\* applied; skipped, those without; direct, a rule led straight to the target
VersionInit ==
  /\ vt = [rules |-> <<>>, at |-> "idle", start |-> 0, target |-> 0, version |-> 0,
           path |-> <<>>, pos |-> 0, data |-> [f \in Fields |-> f], applied |-> <<>>,
           skipped |-> {}, direct |-> FALSE]

Known == UNION {{r.a, r.b} : r \in ToSet(vt.rules)}

RulesOf(a, b) == SelectSeq(vt.rules, LAMBDA r : r.a = a /\ r.b = b)

\* addMigrationRules()
AddRule(a, b, rule) ==
  /\ a # b /\ Len(vt.rules) < MaxRules
  /\ vt' = [vt EXCEPT !.rules = Append(@, [a |-> a, b |-> b, rule |-> rule])]

\* Mutant of Path: the versions in the order their rules were added.
PathUnsorted(from, to) ==
  LET between == {v \in Known : from <= v /\ v <= to} IN
  IF between = {} THEN <<from, to>> ELSE SetToSortSeq(between, >)

\* getMigrationPath(), getUpgradePath(): every version between the two that some rule
\* names, in their order; none for a downgrade, which is made in one step
Path(from, to) ==
  LET between == {v \in Known : from <= v /\ v <= to} IN
  IF between = {} THEN <<from, to>> ELSE SetToSortSeq(between, <)

\* upgrade() and downgrade() up to the first await
Begin(from, to) ==
  /\ vt.at = "idle" /\ from # to
  /\ vt' = [vt EXCEPT !.at = "moving", !.start = from, !.target = to, !.version = from,
                      !.path = Path(from, to), !.pos = 1,
                      !.direct = RulesOf(from, to) # <<>>]

Put(data, f, v) == [data EXCEPT ![f] = v]

\* Mutant of Applied: the old field of a renamed one stays.
AppliedCopying(data, rule) ==
  CASE rule.type = "add_field" -> IF data[rule.from] # VersionNone THEN data
                                  ELSE Put(data, rule.from, "default")
    [] rule.type = "remove_field" -> Put(data, rule.from, VersionNone)
    [] rule.type = "rename_field" -> IF data[rule.from] = VersionNone THEN data
                                     ELSE Put(data, rule.to, data[rule.from])

\* applyFieldMigrationRule(): addField(), removeField(), renameField()
Applied(data, rule) ==
  CASE rule.type = "add_field" -> IF data[rule.from] # VersionNone THEN data
                                  ELSE Put(data, rule.from, "default")
    [] rule.type = "remove_field" -> Put(data, rule.from, VersionNone)
    [] rule.type = "rename_field" -> IF data[rule.from] = VersionNone THEN data
         ELSE Put(Put(data, rule.to, data[rule.from]), rule.from, VersionNone)

\* Mutant of Step: a step with rules takes the next one with it.
StepTwice ==
  /\ vt.at = "moving" /\ vt.pos < Len(vt.path)
  /\ LET a == vt.path[vt.pos]  b == vt.path[vt.pos + 1]
         rs == RulesOf(a, b) IN
     vt' = [vt EXCEPT !.pos = IF rs = <<>> THEN @ + 1 ELSE @ + 2,
              !.data = FoldLeft(LAMBDA d, r : Applied(d, r.rule), @, rs),
              !.applied = IF rs = <<>> THEN @ ELSE Append(@, <<a, b>>),
              !.skipped = IF rs = <<>> THEN @ \cup {<<a, b>>} ELSE @]

\* applyMigrationStep() with the rules of the step, or none, which is only warned of
Step ==
  /\ vt.at = "moving" /\ vt.pos < Len(vt.path)
  /\ LET a == vt.path[vt.pos]  b == vt.path[vt.pos + 1]
         rs == RulesOf(a, b) IN
     \/ vt' = [vt EXCEPT !.pos = @ + 1,
                 !.data = FoldLeft(LAMBDA d, r : Applied(d, r.rule), @, rs),
                 !.applied = IF rs = <<>> THEN @ ELSE Append(@, <<a, b>>),
                 !.skipped = IF rs = <<>> THEN @ \cup {<<a, b>>} ELSE @]
     \/ /\ rs # <<>>    \* a function of a rule throws
        /\ vt' = [vt EXCEPT !.at = "failed"]

\* transform() ends: the message has the target's version, whatever was applied
Finish ==
  /\ vt.at = "moving" /\ vt.pos >= Len(vt.path)
  /\ vt' = [vt EXCEPT !.at = "done", !.version = vt.target]

VersionNext ==
  \/ Step \/ Finish
  \/ \E a, b \in 1..Versions : \/ Begin(a, b)
                               \/ \E rule \in FieldRules : AddRule(a, b, rule)

VersionSpec == VersionInit /\ [][VersionNext]_vt

-----------------------------------------------------------------------------
(* Properties.                                                             *)

\* The steps of a message follow one another upwards, inside the range it was to go;
\* a downgrade is one step.
PathAscends ==
  vt.path # <<>> =>
    IF vt.start > vt.target THEN vt.path = <<vt.start, vt.target>>
    ELSE \A k \in 1..Len(vt.path) : /\ vt.path[k] \in vt.start..vt.target
                                    /\ k > 1 => vt.path[k - 1] < vt.path[k]

\* A migration that succeeds, without a step for which there were no rules, has gone
\* through: its steps lead from the message's version to its target, unless a rule
\* named neither of the two and versions between them.
NoGapUnnoticed ==
  vt.at = "done" /\ vt.skipped = {} =>
    \/ /\ vt.applied # <<>>
       /\ vt.applied[1][1] = vt.start /\ Last(vt.applied)[2] = vt.target
       /\ \A k \in 1..Len(vt.applied) - 1 : vt.applied[k][2] = vt.applied[k + 1][1]
    \/ {vt.start, vt.target} \ ToSet(vt.path) # {}

\* A rule that leads straight to the target is applied, unless other rules name a
\* version in between: then it is left aside, whether or not they lead to the target.
DirectUnlessBetween ==
  vt.at = "done" /\ vt.direct /\ <<vt.start, vt.target>> \notin ToSet(vt.applied) =>
    Len(vt.path) > 2

\* No field's value appears twice, and none that was not there.
ValuesKept ==
  /\ \A f, g \in Fields : f # g /\ vt.data[f] = vt.data[g] =>
       vt.data[f] \in {VersionNone, "default"}
  /\ \A f \in Fields : vt.data[f] \in Fields \cup {VersionNone, "default"}
=============================================================================
