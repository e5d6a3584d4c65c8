------------------------------- MODULE Agents --------------------------------
(***************************************************************************)
(* What an agent's manifest says of its screen (crates/agents/src/         *)
(* engine.rs).  A screen is a sequence of lines of the kinds its regions   *)
(* tell apart; a text a gate looks at is the set of needles it contains,   *)
(* whether they are sought as substrings or as expressions.  That set may  *)
(* be any, for any needle: a blank screen contains the empty string and    *)
(* what matches it.  Each behaviour is one task: the regions of a screen,  *)
(* the gate of one rule, compiled and matched, or the rules in their       *)
(* order.                                                                  *)
(*                                                                         *)
(* A gate has a number, the total_gates of its call of compile_gate, and   *)
(* names its parent and the list of the parent that holds it.  A call's    *)
(* nested ones have larger numbers, so matching can take the gates from    *)
(* the last to the first.                                                  *)
(***************************************************************************)
EXTENDS Integers, Sequences, FiniteSetsExt

Line == {"blank", "text",
         "prompt",   \* codex_prompt_line
         "block",    \* codex_block_marker_line
         "rule"}     \* is_horizontal_rule

CONSTANTS
    MAX_GATE_DEPTH, MAX_TOTAL_GATES,
    MAX_MATCHERS_PER_GATE, MAX_TOTAL_MATCHERS,
    Content,   \* screens
    Count,     \* how many lines a region asks for
    Needle,    \* what gates look for
    Unfit,     \* those too long, or no expression
    MaxNested, \* bound on the gates nested in one
    Priority,  \* of rules
    MaxRules   \* bound on a manifest's rules

ASSUME AgentsAssumption ==
    /\ MAX_GATE_DEPTH \in Nat
    /\ MAX_TOTAL_GATES \in Nat \ {0}
    /\ Content \subseteq Seq(Line)
    /\ Count \subseteq Nat
    /\ MaxNested \in Nat
    /\ Priority \subseteq Int
    /\ MaxRules \in Nat

VARIABLES
    task,      \* what this behaviour is about
    content,   \* the screen
    gates,     \* the gates that compile_gate was called for
    calls,     \* its calls to come
    total_matchers, \* the needles of gates so far
    compiled,  \* "no" yet, "failed", "yes", or in use: "matching"
    text,      \* what the gate is matched with
    left,      \* the gates still to match
    matching,  \* those that do
    rules,     \* the rules the loop has passed
    best,      \* the place of the best of them, or None
    previous   \* the agent's state before

gateVars == <<gates, calls, total_matchers, compiled, text, left, matching>>
ruleVars == <<rules, best, previous>>
agentsVars == <<task, content, gates, calls, total_matchers, compiled, text,
                left, matching, rules, best, previous>>

None == 0
Empty == <<>>

-----------------------------------------------------------------------------
(* Regions *)

Places(lines, kinds) == {i \in DOMAIN lines : lines[i] \in kinds}

\* rposition: the last line of a kind, or None.
LastOf(lines, kinds) == Max(Places(lines, kinds) \cup {None})

From(lines, i)   == SubSeq(lines, i, Len(lines))
Before(lines, i) == SubSeq(lines, 1, i - 1)

bottom_lines(lines, n) ==
    From(lines, Max({Len(lines) - n, 0}) + 1)

\* Mutant of bottom_non_empty_lines: blank lines count.
bottom_non_empty_linesAny(lines, n) ==
    IF Places(lines, Line \ {"blank"}) = {} THEN Empty ELSE bottom_lines(lines, n)

NonEmpty(lines) == Places(lines, Line \ {"blank"})

\* From the n-th last line that is not blank on.
bottom_non_empty_lines(lines, n) ==
    LET kept == {i \in NonEmpty(lines) : Cardinality({j \in NonEmpty(lines) : j >= i}) <= n}
    IN  IF kept = {} THEN Empty ELSE From(lines, Min(kept))

\* Up to the n-th first.
top_non_empty_lines(lines, n) ==
    LET kept == {i \in NonEmpty(lines) : Cardinality({j \in NonEmpty(lines) : j <= i}) <= n}
    IN  IF kept = {} THEN Empty ELSE Before(lines, Max(kept) + 1)

\* Mutant of current_codex_prompt_index: the last prompt is current.
current_codex_prompt_indexLast(lines) == LastOf(lines, {"prompt"})

\* The last prompt, unless output follows it.
current_codex_prompt_index(lines) ==
    LET i == LastOf(lines, {"prompt"})
    IN  IF Places(From(lines, i + 1), {"block"}) # {} THEN None ELSE i

after_last_prompt_marker(lines) == From(lines, LastOf(lines, {"prompt"}) + 1)

before_current_prompt_marker(lines) ==
    LET i == current_codex_prompt_index(lines)
    IN  IF i = None THEN lines ELSE Before(lines, i)

whole_recent_without_current_prompt_marker(lines) ==
    IF current_codex_prompt_index(lines) # None THEN Empty ELSE lines

\* The place of the last block above the current prompt.
BlockIndex(lines) ==
    LET i == current_codex_prompt_index(lines)
    IN  IF i = None THEN None ELSE LastOf(Before(lines, i), {"block"})

current_prompt_block_marker(lines) ==
    LET i == BlockIndex(lines) IN IF i = None THEN Empty ELSE <<lines[i]>>

after_current_prompt_block_marker(lines) ==
    LET i == BlockIndex(lines) IN IF i = None THEN Empty ELSE From(lines, i)

\* Mutant of prompt_box_top_border_index: the first rule of the screen.
prompt_box_top_border_indexFirst(lines) ==
    LET borders == Places(lines, {"rule"})
    IN  IF Cardinality(borders) < 2 THEN None ELSE Min(borders)

\* The second last rule.
prompt_box_top_border_index(lines) ==
    LET last == LastOf(lines, {"rule"})
    IN  IF last = None THEN None ELSE LastOf(Before(lines, last), {"rule"})

prompt_box_body(lines) ==
    LET top   == prompt_box_top_border_index(lines)
        below == From(lines, top + 1)
        ends  == Places(below, {"rule"})
    IN  IF top = None THEN Empty
        ELSE IF ends = {} THEN below
        ELSE Before(below, Min(ends))

above_prompt_box(lines) ==
    LET top == prompt_box_top_border_index(lines)
    IN  IF top = None THEN lines ELSE Before(lines, top)

after_last_horizontal_rule(lines) == From(lines, LastOf(lines, {"rule"}) + 1)

-----------------------------------------------------------------------------
(* Gates *)

Lists == {"all", "any", "not_gate"}

\* A gate of a manifest: how many each of its lists holds.
Shape ==
    {g \in [contains : SUBSET Needle, nested : [Lists -> 0..MaxNested]] :
        g.nested["all"] + g.nested["any"] + g.nested["not_gate"] <= MaxNested}

gate_has_positive_matcher(g) ==
    g.contains # {} \/ g.nested["all"] > 0 \/ g.nested["any"] > 0

\* Mutant of Sound: a gate of negations only is let through.
SoundNegated(g, negated) ==
    gate_has_positive_matcher(g) \/ g.nested["not_gate"] > 0

\* A positive matcher, or a nested not in a not gate.
Sound(g, negated) ==
    gate_has_positive_matcher(g) \/ (negated /\ g.nested["not_gate"] > 0)

\* A gate's own needles, of which it lists none twice: with total the
\* needles of the gates up to it.
validate_matcher_limits(g, total) ==
    /\ Cardinality(g.contains) <= MAX_MATCHERS_PER_GATE
    /\ total <= MAX_TOTAL_MATCHERS

\* The calls a gate makes for its lists, in their order.
Calls(g, i, depth) ==
    LET alls == g.nested["all"]
        anys == alls + g.nested["any"]
    IN  [k \in 1..(anys + g.nested["not_gate"]) |->
            [parent |-> i, depth |-> depth,
             list |-> IF k <= alls THEN "all" ELSE IF k <= anys THEN "any" ELSE "not_gate"]]

\* A manifest's rule is loaded.  MAX_TOTAL_GATES and MAX_TOTAL_MATCHERS stand
\* for what the rules before it have left of the manifest's limits.
Load ==
    /\ task = "none"
    /\ task' = "gates"
    /\ calls' = <<[parent |-> 0, list |-> "all", depth |-> 0]>>
    /\ UNCHANGED <<content, gates, total_matchers, compiled, text, left, matching,
                   ruleVars>>

\* Any error fails the manifest, so those of compile_regexes, which come after
\* the nested gates, may come first here.
compile_gate(g) ==
    /\ compiled = "no"
    /\ calls # <<>>
    /\ LET call  == Head(calls)
           n     == Len(gates) + 1
           total == total_matchers + Cardinality(g.contains)
       IN  IF \/ call.depth > MAX_GATE_DEPTH
              \/ n > MAX_TOTAL_GATES
              \/ ~validate_matcher_limits(g, total)
              \/ ~Sound(g, call.list = "not_gate")
              \/ g.contains \cap Unfit # {}
           THEN /\ compiled' = "failed"
                /\ UNCHANGED <<gates, calls, total_matchers>>
           ELSE /\ gates' = Append(gates, [call |-> call, shape |-> g])
                /\ calls' = Calls(g, n, call.depth + 1) \o Tail(calls)
                /\ total_matchers' = total
                /\ compiled' = IF calls' = <<>> THEN "yes" ELSE "no"
    /\ UNCHANGED <<task, content, text, left, matching, ruleVars>>

\* The gate of a rule is matched with a text.
compiled_rule_matches(t) ==
    /\ compiled = "yes"
    /\ compiled' = "matching"
    /\ text' = t
    /\ left' = Len(gates)
    /\ UNCHANGED <<task, content, gates, calls, total_matchers, matching, ruleVars>>

Nested(i, list) ==
    {j \in DOMAIN gates : gates[j].call.parent = i /\ gates[j].call.list = list}

Matches(i) ==
    /\ gates[i].shape.contains \subseteq text
    /\ Nested(i, "all") \subseteq matching
    /\ gates[i].shape.nested["any"] = 0 \/ Nested(i, "any") \cap matching # {}
    /\ Nested(i, "not_gate") \cap matching = {}

compiled_gate_matches ==
    /\ compiled = "matching"
    /\ left > 0
    /\ left' = left - 1
    /\ matching' = IF Matches(left) THEN matching \cup {left} ELSE matching
    /\ UNCHANGED <<task, content, gates, calls, total_matchers, compiled, text,
                   ruleVars>>

-----------------------------------------------------------------------------
(* Rules *)

State == {"idle", "working", "blocked"}
Rule == [priority : Priority, matches : BOOLEAN, state : State \cup {"unknown"}]

\* A known agent's screen is to be read.
Detect(s) ==
    /\ task = "none"
    /\ task' = "rules"
    /\ previous' = s
    /\ UNCHANGED <<content, gateVars, rules, best>>

\* Mutant of Better: the last of equal rules wins.
BetterLast(r) == best = None \/ r.priority >= rules[best].priority

Better(r) == best = None \/ r.priority > rules[best].priority

\* One turn of the loop of evaluate.
evaluate(r) ==
    /\ task = "rules"
    /\ Len(rules) < MaxRules
    /\ rules' = Append(rules, r)
    /\ best' = IF Better(r) /\ r.matches THEN Len(rules) + 1 ELSE best
    /\ UNCHANGED <<task, content, gateVars, previous>>

\* The state shown: no rule is idle, and a rule without a state (a viewer over
\* the screen) keeps the last one.
Detection ==
    IF best = None THEN "idle"
    ELSE IF rules[best].state = "unknown" THEN previous
    ELSE rules[best].state

-----------------------------------------------------------------------------
\* A screen is cut into regions.
Capture(c) ==
    /\ task = "none"
    /\ task' = "screen"
    /\ content' = c
    /\ UNCHANGED <<gateVars, ruleVars>>

AgentsInit ==
    /\ task = "none"
    /\ content = Empty
    /\ gates = <<>>
    /\ calls = <<>>
    /\ total_matchers = 0
    /\ compiled = "no"
    /\ text = {}
    /\ left = 0
    /\ matching = {}
    /\ rules = <<>>
    /\ best = None
    /\ previous = "idle"

AgentsNext ==
    \/ task = "none" /\ \E c \in Content : Capture(c)
    \/ Load
    \/ \E g \in Shape : compile_gate(g)
    \/ \E t \in SUBSET Needle : compiled_rule_matches(t)
    \/ compiled_gate_matches
    \/ \E s \in State : Detect(s)
    \/ \E r \in Rule : evaluate(r)

AgentsSpec == AgentsInit /\ [][AgentsNext]_agentsVars

-----------------------------------------------------------------------------
(* The prompt's box cuts the screen into what is above it, its body and     *)
(* what is below its last border, whatever older rules are on the screen    *)
(* (prompt_box_body, above_prompt_box, after_last_horizontal_rule).         *)
BoxCutsTheScreen ==
    LET s     == content
        body  == prompt_box_body(s)
        above == above_prompt_box(s)
        below == From(s, Len(above) + Len(body) + 2)
    IN  IF above = s
        THEN body = Empty
        ELSE /\ s = above \o <<"rule">> \o body \o below
             /\ Places(body, {"rule"}) = {}
             /\ Cardinality(Places(below, {"rule"})) = 1
             /\ after_last_horizontal_rule(s) = Tail(below)

(* A prompt counts as current only with no output below it, and the regions *)
(* that look for one agree: two of them cut the screen at it, one is empty  *)
(* exactly then, and the block above it heads what follows it               *)
(* (current_codex_prompt_index and its users).                              *)
PromptIsCurrent ==
    LET s     == content
        here  == before_current_prompt_marker(s)
        block == after_current_prompt_block_marker(s)
    IN  /\ (whole_recent_without_current_prompt_marker(s) # s) <=> (here # s)
        /\ here # s =>
              /\ s = here \o <<"prompt">> \o after_last_prompt_marker(s)
              /\ Places(after_last_prompt_marker(s), {"block", "prompt"}) = {}
        /\ IF block = Empty
           THEN current_prompt_block_marker(s) = Empty
           ELSE here # s /\ current_prompt_block_marker(s) = <<Head(block)>>

(* The n top and bottom lines of a screen hold n lines that are not blank,  *)
(* or all there are, however many blank ones lie between                    *)
(* (top_non_empty_lines, bottom_non_empty_lines).                           *)
BlanksDoNotCount ==
    LET s == content
        Full(r) == Cardinality(NonEmpty(r))
    IN  \A n \in Count :
            LET want   == IF n < Full(s) THEN n ELSE Full(s)
                top    == top_non_empty_lines(s, n)
                bottom == bottom_non_empty_lines(s, n)
            IN  /\ Full(top) = want
                /\ Full(bottom) = want
                /\ top = Before(s, Len(top) + 1)
                /\ bottom = From(s, Len(s) - Len(bottom) + 1)

\* The needles that gates ask for, outside a not.
Asked ==
    UNION {gates[i].shape.contains :
              i \in {j \in DOMAIN gates : gates[j].call.list # "not_gate"}}

(* A rule of a manifest that loads matches for something that is there: a   *)
(* text with none of the needles its gates ask for outside a not, however   *)
(* its alls, anys and nots are nested, does not match it (compile_gate:     *)
(* "gate must contain a positive matcher").  Which texts those are is the   *)
(* needles' matter: the empty string is in all of them.                     *)
NoVacuousRule ==
    compiled = "matching" /\ left = 0 /\ text \cap Asked = {} => 1 \notin matching

(* The first matching rule of the highest priority decides (evaluate), and  *)
(* an agent behind a viewer keeps the state it had.                         *)
FirstOfTheBest ==
    LET hits  == {i \in DOMAIN rules : rules[i].matches}
        bests == {i \in hits : \A j \in hits : rules[j].priority <= rules[i].priority}
    IN  Detection = IF hits = {} THEN "idle"
                    ELSE IF rules[Min(bests)].state = "unknown" THEN previous
                    ELSE rules[Min(bests)].state

(* An agent's state is read off the current prompt of any screen and        *)
(* decided by the first of the best rules, each of which matches for what   *)
(* it asks for.                                                             *)
DetectionIsExact ==
    /\ BoxCutsTheScreen
    /\ PromptIsCurrent
    /\ BlanksDoNotCount
    /\ NoVacuousRule
    /\ FirstOfTheBest
=============================================================================
