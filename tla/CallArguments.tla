----------------------------- MODULE CallArguments -----------------------------
(***************************************************************************)
(* What is made of a call before its policy sees it, and after: the        *)
(* canonical form of its tool and arguments (core/canonicalize), the       *)
(* context sources that have to be fresh (core/contextguard), and the call *)
(* that undoes it (core/compensation, cmd/faramesh/compensate.go).         *)
(***************************************************************************)
EXTENDS Integers, Sequences, FiniteSets, SequencesExt

CONSTANTS
    Spellings,      \* texts, sequences of the characters below
    Floats,         \* [digits, mag]: one more figure than is kept, and the power of ten of the first
    KeptFigures, LargestPower,  \* 6 and 308 in the code
    GuardLists,     \* sequences of [endpoint, required, maxAge, onMissing, onStale]
    GuardAnswers,   \* what a source answers: [fails, fields, stamp]
    MaxGuardTime,
    Undoings        \* [kind, mapping, args, effect] of a recorded call

(* The characters of a text. "c" is a Latin letter and "es" the Cyrillic   *)
(* one that looks the same, "mark" the cedilla that combines and "c-mark"  *)
(* the letter with it, "cedilla" the one of its own (a space with the      *)
(* mark, to NFKC), "shy" one that is invisible.                            *)
Characters == {"c", "es", "mark", "c-mark", "cedilla", "shy", " ", ".", "/"}

(* The power of ten is a number, which it is for every number of figures.  *)
ASSUME CallArgumentsAssumption ==
    /\ Spellings \subseteq Seq(Characters)
    /\ Floats \subseteq [digits : Nat \cup {-1}, mag : Int]
    /\ \A f \in Floats : f.digits = -1 => f.mag = 0
    /\ KeptFigures \in Nat \ {0} /\ 10 ^ (KeptFigures - 1) \in Nat \ {0} /\ LargestPower \in Nat
    /\ GuardLists \subseteq Seq([endpoint : BOOLEAN, required : SUBSET STRING, maxAge : Nat,
                               onMissing : STRING, onStale : STRING])
    /\ \A u \in Undoings :
          /\ u.args \subseteq Seq(STRING)
          /\ u.mapping # <<>> => \A a \in DOMAIN u.mapping[1] : u.mapping[1][a] \in Seq(STRING)

VARIABLES
    argNow,
    normalized,     \* a text or a number, made canonical once and twice
    guarding,       \* contextguard.Check: the guards, how far it is, what was answered when
    undone          \* compensate build: the call, and what it proposes

argVars == <<argNow, normalized, guarding, undone>>

-------------------------------------------------------------------------------
(* Canonical texts *)

Trim(s) ==
    LET ink == {n \in DOMAIN s : s[n] # " "} IN
    IF ink = {} THEN <<>>
    ELSE SubSeq(s, CHOOSE n \in ink : \A k \in ink : n <= k, CHOOSE n \in ink : \A k \in ink : k <= n)

(* The characters in a table are replaced by what it has for them.         *)
Replaced(s, table) ==
    FlattenSeq([n \in DOMAIN s |-> IF s[n] \in DOMAIN table THEN table[s[n]] ELSE <<s[n]>>])

(* NFKC: characters are decomposed, those of compatibility too, and a      *)
(* Latin letter composed with the mark that follows; the Cyrillic letter   *)
(* has no such composition.                                                *)
Decomposed == [c \in {"c-mark", "cedilla"} |-> IF c = "c-mark" THEN <<"c", "mark">> ELSE <<" ", "mark">>]
NFKC(s) ==
    LET apart == Replaced(s, Decomposed)
        Composed(n) == apart[n] = "c" /\ n < Len(apart) /\ apart[n + 1] = "mark"
    IN FlattenSeq([n \in DOMAIN apart |-> IF Composed(n) THEN <<"c-mark">>
                                          ELSE IF n > 1 /\ Composed(n - 1) THEN <<>> ELSE <<apart[n]>>])

(* Mutant of MapConfusables: none is mapped. *)
MapNoConfusables(s) == s
Lookalikes == [c \in {"es"} |-> <<"c">>]
MapConfusables(s) == Replaced(s, Lookalikes)

(* normalizeString. *)
CanonicalText(s) == MapConfusables(NFKC(Trim(s)))

Invisible == [c \in {"shy"} |-> <<>>]
(* "//" becomes "/" until there is none. *)
CollapseSlashes(s) ==
    FlattenSeq([n \in DOMAIN s |-> IF s[n] = "/" /\ n > 1 /\ s[n - 1] = "/" THEN <<>> ELSE <<s[n]>>])
(* A prefix is taken off as often as it is there. *)
Without(prefix, s) ==
    LET k == Len(prefix)
        Times(n) == n * k <= Len(s) /\ \A i \in 0 .. n - 1 : SubSeq(s, i * k + 1, i * k + k) = prefix
        most == CHOOSE n \in 0 .. Len(s) : Times(n) /\ ~Times(n + 1)
    IN SubSeq(s, most * k + 1, Len(s))

(* ToolID: "./" is taken off before "../". *)
CanonicalTool(s) ==
    LET seen == Replaced(CanonicalText(s), Invisible) IN
    Without(<<".", ".", "/">>, Without(<<".", "/">>, CollapseSlashes(seen)))

(* normalizeFloat: the factor 10 ^ (6 - 1 - magnitude) overflows for a     *)
(* number that is small enough, and infinity over infinity is no number.   *)
NotANumber == [digits |-> -1, mag |-> 0]
Zero == [digits |-> 0, mag |-> 0]
CanonicalFloat(f) ==
    LET one == 10 ^ (KeptFigures - 1)
        kept == (f.digits + 5) \div 10
    IN IF f \in {NotANumber, Zero} THEN Zero
       ELSE IF KeptFigures - 1 - f.mag > LargestPower THEN NotANumber
       ELSE IF kept = 10 * one THEN [digits |-> 10 * one, mag |-> f.mag + 1]
       ELSE [digits |-> 10 * kept, mag |-> f.mag]

(* What Evaluate does first with its tool, a text and a number.            *)
Normalize ==
    /\ normalized = <<>>
    /\ \/ \E s \in Spellings :
            normalized' = [kind |-> "text", of |-> s, once |-> CanonicalText(s),
                           twice |-> CanonicalText(CanonicalText(s)), tool |-> CanonicalTool(s),
                           toolTwice |-> CanonicalTool(CanonicalTool(s))]
       \/ \E f \in Floats :
            normalized' = [kind |-> "float", of |-> f, once |-> CanonicalFloat(f),
                           twice |-> CanonicalFloat(CanonicalFloat(f))]
    /\ UNCHANGED <<argNow, guarding, undone>>

-------------------------------------------------------------------------------
(* Context guards *)

EffectOrDefault(effect, fallback) == IF effect = "" THEN fallback ELSE effect

(* checkGuard: a source that cannot be reached, answers with an error or    *)
(* without a required field, or is too old. An age is looked at only if    *)
(* the answer carries a time that can be read; -1 stands for one that      *)
(* does not.                                                               *)
Stale(g, answer, at) == g.maxAge > 0 /\ answer.stamp >= 0 /\ at - answer.stamp > g.maxAge
(* Mutant of Checked: what is missing is not looked at once fresh.         *)
CheckedAge(g, answer, at) ==
    IF g.endpoint /\ Stale(g, answer, at) THEN [passed |-> FALSE, effect |-> EffectOrDefault(g.onStale, "defer")]
    ELSE [passed |-> TRUE, effect |-> ""]
Checked(g, answer, at) ==
    IF ~g.endpoint THEN [passed |-> TRUE, effect |-> ""]
    ELSE IF answer.fails \/ ~(g.required \subseteq answer.fields)
      THEN [passed |-> FALSE, effect |-> EffectOrDefault(g.onMissing, "deny")]
    ELSE IF Stale(g, answer, at) THEN [passed |-> FALSE, effect |-> EffectOrDefault(g.onStale, "defer")]
    ELSE [passed |-> TRUE, effect |-> ""]

BeginGuards ==
    /\ guarding = <<>>
    /\ \E gs \in GuardLists : guarding' = [guards |-> gs, answers |-> <<>>, effect |-> "", done |-> gs = <<>>]
    /\ UNCHANGED <<argNow, normalized, undone>>
(* Check asks the sources one after the other, and stops at the first that  *)
(* fails.                                                                  *)
CheckGuard ==
    /\ guarding # <<>> /\ ~guarding.done
    /\ \E answer \in GuardAnswers :
         LET n == Len(guarding.answers) + 1
             result == Checked(guarding.guards[n], answer, argNow)
         IN /\ answer.stamp <= argNow
            /\ guarding' = [guarding EXCEPT !.answers = Append(@, [answer |-> answer, at |-> argNow]),
                               !.effect = result.effect, !.done = ~result.passed \/ n = Len(guarding.guards)]
    /\ UNCHANGED <<argNow, normalized, undone>>
ArgTick == /\ argNow < MaxGuardTime /\ argNow' = argNow + 1 /\ UNCHANGED <<normalized, guarding, undone>>

(* Evaluate's answer: a failed guard defers if it says so, and denies       *)
(* otherwise, whatever else it says.                                       *)
GuardEffect(effect) == IF effect = "" THEN "" ELSE IF effect = "defer" THEN "DEFER" ELSE "DENY"

-------------------------------------------------------------------------------
(* Compensation. Arguments are the paths to their leaves; a mapping gives   *)
(* each argument of the undoing call a path as it is written, in parts.    *)

SplitPath(path) == Replaced(path, [part \in {""} |-> <<>>])
(* resolveArgPath: what is below the path, and <<>> alone of a leaf.       *)
Resolved(args, path) ==
    LET p == SplitPath(path) IN {SubSeq(leaf, Len(p) + 1, Len(leaf)) : leaf \in {l \in args : IsPrefix(p, l)}}

(* Engine.Classify: what the policy says of the tool; else by its having a  *)
(* compensation; else it cannot be undone.                                 *)
Classified(u) ==
    IF u.kind \in {"reversible", "compensatable", "irreversible"} THEN u.kind
    ELSE IF u.mapping # <<>> THEN "compensatable" ELSE "irreversible"

(* Mutant of Compensation: an argument that is missing is left out.        *)
CompensationOfSome(u) ==
    IF u.mapping = <<>> THEN [status |-> "not_supported"]
    ELSE LET map == u.mapping[1] IN
         [status |-> "executed",
          args |-> [a \in {b \in DOMAIN map : Resolved(u.args, map[b]) # {}} |-> Resolved(u.args, map[a])]]
(* BuildCompensation. *)
Compensation(u) ==
    IF u.mapping = <<>> THEN [status |-> "not_supported"]
    ELSE LET map == u.mapping[1] IN
         IF \E a \in DOMAIN map : Resolved(u.args, map[a]) = {} THEN [status |-> "failed"]
         ELSE [status |-> "executed", args |-> [a \in DOMAIN map |-> Resolved(u.args, map[a])]]

(* buildCompensateOutput. *)
Proposed(u) ==
    CASE Classified(u) = "compensatable" ->
           (LET c == Compensation(u) IN
            CASE c.status = "executed" -> [status |-> "proposed", args |-> c.args]
              [] c.status = "not_supported" -> [status |-> "unsupported"]
              [] OTHER -> [status |-> "no_compensation"])
      [] Classified(u) = "reversible" -> [status |-> "no_compensation"]
      [] OTHER -> [status |-> "unsupported"]

BuildUndoing ==
    /\ undone = <<>>
    /\ \E u \in Undoings : undone' = [of |-> u, output |-> Proposed(u)]
    /\ UNCHANGED <<argNow, normalized, guarding>>

ArgInit == argNow = 0 /\ normalized = <<>> /\ guarding = <<>> /\ undone = <<>>
GuardNext == BeginGuards \/ CheckGuard \/ ArgTick
ArgNext == Normalize \/ GuardNext \/ BuildUndoing
ArgSpec == ArgInit /\ [][ArgNext]_argVars

-------------------------------------------------------------------------------
(* Properties *)

Has(s, part) == \E n \in 0 .. Len(s) - Len(part) : SubSeq(s, n + 1, n + Len(part)) = part

(* canonicalize.go:42-75: whatever was sent, a tool's name has no           *)
(* lookalike, no invisible character, no empty part and no "../" at its    *)
(* front; an argument has no lookalike.                                    *)
NothingHides ==
    normalized # <<>> /\ normalized.kind = "text" =>
        /\ ~Has(normalized.once, <<"es">>) /\ ~Has(normalized.once, <<"cedilla">>)
        /\ \A part \in {<<"es">>, <<"shy">>, <<"/", "/">>} : ~Has(normalized.tool, part)
        /\ ~IsPrefix(<<".", ".", "/">>, normalized.tool)

(* canonicalize.go:16: a number keeps its first figures, to half a unit of  *)
(* the last, and rounding it again changes nothing.                        *)
FiguresAreKept ==
    normalized # <<>> /\ normalized.kind = "float" /\ normalized.once # NotANumber =>
        /\ normalized.twice = normalized.once
        /\ LET f == normalized.of g == normalized.once
               value == IF g.mag = f.mag THEN g.digits ELSE 10 * g.digits
           IN f.digits > 0 => value - f.digits \in -4 .. 5

(* guard.go:36: a call passes only if every source was asked, answered with *)
(* all that is required, and was fresh when asked; one that fails decides,  *)
(* and the ones after it are not asked.                                    *)
GuardsAreHeld ==
    guarding # <<>> /\ guarding.done =>
        LET gs == guarding.guards as == guarding.answers n == Len(as)
            Good(k) == gs[k].endpoint => /\ ~as[k].answer.fails /\ gs[k].required \subseteq as[k].answer.fields
                                         /\ ~Stale(gs[k], as[k].answer, as[k].at)
        IN /\ \A k \in 1 .. n - 1 : Good(k)
           /\ GuardEffect(guarding.effect) = "" <=> n = Len(gs) /\ \A k \in 1 .. n : Good(k)

(* engine.go:128: a call that undoes another is proposed only of a tool that *)
(* is not said to be reversible or irreversible, with all its arguments,    *)
(* each taken from the original.                                           *)
UndoingIsComplete ==
    undone # <<>> /\ undone.output.status = "proposed" =>
        /\ undone.of.kind \notin {"reversible", "irreversible"} /\ undone.of.mapping # <<>>
        /\ DOMAIN undone.output.args = DOMAIN undone.of.mapping[1]
        /\ \A a \in DOMAIN undone.output.args :
              /\ undone.output.args[a] # {}
              /\ \A rest \in undone.output.args[a] : SplitPath(undone.of.mapping[1][a]) \o rest \in undone.of.args

ArgumentsHold == NothingHides /\ FiguresAreKept /\ GuardsAreHeld /\ UndoingIsComplete

(* tests/adversarial/README.md:17: canonicalize(canonicalize(x)) is         *)
(* canonicalize(x).                                                        *)
CanonicalIsFinal ==
    normalized # <<>> => /\ normalized.once = normalized.twice
                         /\ normalized.kind = "text" => normalized.tool = normalized.toolTwice
(* schema.go:146: what is older than max_age_seconds is stale; a call that  *)
(* passes has none when it is answered.                                    *)
PassedAreFresh ==
    guarding # <<>> /\ guarding.done /\ guarding.effect = "" =>
        \A k \in DOMAIN guarding.answers : ~Stale(guarding.guards[k], guarding.answers[k].answer, argNow)
(* engine.go:35: only a call that was permitted is undone. *)
OnlyPermittedIsUndone ==
    undone # <<>> /\ undone.output.status = "proposed" => undone.of.effect = "PERMIT"
===============================================================================
