----------------------------- MODULE ContextFit -----------------------------
(***************************************************************************)
(* The conversation buffer of src/context: append() adds a message and     *)
(* fit() brings the buffer under the input budget, by one of the two       *)
(* built-in strategies.  A caller keeps the buffer it gets back and        *)
(* appends to that, possibly under another budget or strategy.             *)
(*                                                                         *)
(* Of a message the model keeps whether it is well-formed, whether it is   *)
(* pinned and what it costs in tokens, its framing included.  Each message *)
(* object is appended once: the strategies tell messages apart by identity.*)
(***************************************************************************)
EXTENDS Integers, Sequences, FiniteSets

CONSTANTS
  Costs,        \* token counts of messages
  Budgets,      \* input budgets
  Keeps,        \* values of strategy_options.n
  MaxMessages   \* bound on messages appended

ASSUME ContextAssumption ==
  /\ Costs \subseteq Nat
  /\ Budgets \subseteq Nat
  /\ Keeps \subseteq Nat
  /\ MaxMessages \in Nat

Messages == [id : 1..MaxMessages, pinned : BOOLEAN, cost : Costs, valid : BOOLEAN]

VARIABLES
  said,     \* history: all messages appended
  buffer,   \* what the last append returned
  status    \* its status

contextVars == <<said, buffer, status>>

(* A token is a place in a message; what messages cost is how many tokens  *)
(* they have together.                                                     *)
Tokens(b, I) == UNION {{i} \X (1..b[i].cost) : i \in I}
CostOf(b, I) == Cardinality(Tokens(b, I))

Total(b) == CostOf(b, DOMAIN b)

\* The elements of b at the positions in I, in their order.
Rank(I, i) == Cardinality({j \in I : j <= i})
At(b, I) == [k \in 1..Cardinality(I) |-> b[CHOOSE i \in I : Rank(I, i) = k]]

\* The malformed entries are dropped.
Clean(input) == At(input, {i \in DOMAIN input : input[i].valid})

Pinned(b) == {i \in DOMAIN b : b[i].pinned}

\* Newest first, as long as they fit: a position is kept if it fits together
\* with all candidates after it.
FitFromNewest(b, C, room) == {i \in C : CostOf(b, {j \in C : j >= i}) <= room}

\* keep-last-n: the newest n candidates.
LastN(C, n) == {i \in C : Cardinality({j \in C : j > i}) < n}

\* A strategy's candidates among the messages that are not pinned.
Candidates(b, strategy) ==
  LET evictable == DOMAIN b \ Pinned(b) IN
  IF strategy.name = "keep-last-n" THEN LastN(evictable, strategy.n) ELSE evictable

\* slidingWindowPinned and keepLastN: the positions that stay.
Retained(b, strategy, budget) ==
  IF Total(b) <= budget THEN DOMAIN b
  ELSE Pinned(b) \union
       FitFromNewest(b, Candidates(b, strategy), budget - CostOf(b, Pinned(b)))

\* Variant (fault injection): the final sort is missing.
Reassemble_Unsorted(b, I) == At(b, I \intersect Pinned(b)) \o At(b, I \ Pinned(b))

\* The order of what stays is that of the input.
Reassemble(b, I) == At(b, I)

Evicted(input, clean, kept) == Len(input) - Len(clean) + Len(clean) - Cardinality(kept)

Outcome(b, budget, evicted, reason) ==
  [buffer |-> b,
   status |-> [budget |-> budget, evicted |-> evicted, reason |-> reason]]

\* fit(): malformed entries are dropped; pinned messages that alone exceed the
\* budget are returned alone, and a newest message that does not fit beside
\* the pinned ones leaves the buffer as it is, both as rejections.
Fit(input, strategy, budget) ==
  LET clean   == Clean(input)
      invalid == Len(input) - Len(clean)
      pinned  == CostOf(clean, Pinned(clean))
      kept    == Retained(clean, strategy, budget)
  IN
  IF clean = <<>> THEN Outcome(<<>>, budget, invalid, "none")
  ELSE IF pinned > budget
    THEN Outcome(At(clean, Pinned(clean)), budget, invalid, "pinned_exceeds_budget")
  ELSE IF pinned + clean[Len(clean)].cost > budget
    THEN Outcome(clean, budget, invalid, "single_message_exceeds_budget")
  ELSE Outcome(Reassemble(clean, kept), budget, Evicted(input, clean, kept), "none")

Strategies == {[name |-> "sliding-window-pinned", n |-> 0]}
              \union {[name |-> "keep-last-n", n |-> n] : n \in Keeps}

ContextInit ==
  /\ said = <<>>
  /\ buffer = <<>>
  /\ status = [budget |-> 0, evicted |-> 0, reason |-> "none"]

\* append(buffer, message, config), and the caller keeps the result.
AppendMessage(m, strategy, budget) ==
  LET r == Fit(Append(buffer, m), strategy, budget) IN
  /\ m.id = Len(said) + 1
  /\ said' = Append(said, m)
  /\ buffer' = r.buffer
  /\ status' = r.status

ContextNext ==
  /\ Len(said) < MaxMessages
  /\ \E m \in Messages, strategy \in Strategies, budget \in Budgets :
       AppendMessage(m, strategy, budget)

ContextSpec == ContextInit /\ [][ContextNext]_contextVars

-----------------------------------------------------------------------------
ContextTypeOK ==
  /\ said \in Seq(Messages) /\ Len(said) <= MaxMessages
  /\ buffer \in Seq({m \in Messages : m.valid})
  /\ status \in [budget : Budgets \union {0}, evicted : 0..MaxMessages,
                 reason : {"none", "pinned_exceeds_budget",
                           "single_message_exceeds_budget"}]

\* After any number of appends under changing budgets and strategies the
\* buffer fits the budget or its status says why not, is in the order of the
\* conversation, has all well-formed pinned messages, and of the others a
\* newest part without holes.
NothingLost ==
  LET has(m) == \E i \in DOMAIN buffer : buffer[i] = m IN
  /\ status.reason = "none" => Total(buffer) <= status.budget
  /\ \A i, j \in DOMAIN buffer : i < j => buffer[i].id < buffer[j].id
  /\ \A i \in DOMAIN said : said[i].valid /\ said[i].pinned => has(said[i])
  /\ \A i, j \in DOMAIN said :
       i < j /\ ~said[j].pinned /\ said[j].valid /\ ~said[i].pinned
             /\ has(said[i]) => has(said[j])
=============================================================================
