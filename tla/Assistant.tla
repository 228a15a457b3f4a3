----------------------------- MODULE Assistant -----------------------------
(***************************************************************************)
(* The read-only assistant of meshsa.llm: chat_reply checks a prompt, and  *)
(* SAAgent.ask alternates calls of the model with the tools the model asks *)
(* for, until it stops or the rounds are used up.  Several chats run at a  *)
(* time over one agent; each await lets another one in.                    *)
(*                                                                         *)
(* A turn is its role and the ids of the tool_use blocks (assistant) or of *)
(* the tool_results (user) in it; texts and values are left out.           *)
(***************************************************************************)
EXTENDS Naturals, Sequences, FiniteSets

CONSTANTS
    Chats,
    MaxIterations,   \* max_iterations
    MaxUses          \* bound on tool_use blocks of one answer

ConstantsOK == {MaxIterations, MaxUses} \subseteq Nat \ {0}

VARIABLES
    asPc,        \* where the handler of each chat is
    asTurns,     \* messages
    asRounds,    \* iterations of the loop that have begun
    asResults,   \* results, of the tools run in this round
    asCalls,     \* tool_calls, their number
    asStatus     \* the status of the reply, 0 before

vars == <<asPc, asTurns, asRounds, asResults, asCalls, asStatus>>

Init ==
    /\ asPc = [c \in Chats |-> "idle"]
    /\ asTurns = [c \in Chats |-> <<>>]
    /\ asRounds = [c \in Chats |-> 0]
    /\ asResults = [c \in Chats |-> <<>>]
    /\ asCalls = [c \in Chats |-> 0]
    /\ asStatus = [c \in Chats |-> 0]

User(ids) == [role |-> "user", ids |-> ids]
Model(ids) == [role |-> "assistant", ids |-> ids]
Added(c, turn) == asTurns' = [asTurns EXCEPT ![c] = Append(@, turn)]

Reply(c, status) ==
    /\ asPc' = [asPc EXCEPT ![c] = "done"]
    /\ asStatus' = [asStatus EXCEPT ![c] = status]

\* The head of the loop: another call of the model, or the end of the rounds.
NextRound(c) ==
    IF asRounds[c] < MaxIterations
    THEN /\ asRounds' = [asRounds EXCEPT ![c] = @ + 1]
         /\ asPc' = [asPc EXCEPT ![c] = "model"]
         /\ UNCHANGED asStatus
    ELSE Reply(c, 200) /\ UNCHANGED asRounds

\* chat_reply: a payload without a prompt, or with one that is too long, is refused.
Ask(c) ==
    /\ asPc[c] = "idle"
    /\ \/ Reply(c, 400) /\ UNCHANGED <<asTurns, asRounds>>
       \/ Added(c, User(<<>>)) /\ NextRound(c)
    /\ UNCHANGED <<asResults, asCalls>>

\* The model answers: it stops, for whatever reason and with whatever blocks, or it wants
\* tools.  Ids are the model's and new.
Answer(c) ==
    /\ asPc[c] = "model"
    /\ \E n \in 0..MaxUses :
           /\ Added(c, Model([i \in 1..n |-> asCalls[c] + i]))
           /\ \/ Reply(c, 200)
              \/ asPc' = [asPc EXCEPT ![c] = "tool"] /\ UNCHANGED asStatus
    /\ asResults' = [asResults EXCEPT ![c] = <<>>]
    /\ UNCHANGED <<asRounds, asCalls>>

Wanted(c) == asTurns[c][Len(asTurns[c])].ids

DispatchKnown(c) ==
    /\ asPc[c] = "tool"
    /\ Len(asResults[c]) < Len(Wanted(c))
    /\ asCalls' = [asCalls EXCEPT ![c] = @ + 1]
    /\ \E known \in BOOLEAN :
           asResults' = [asResults EXCEPT ![c] = IF known THEN Append(@, Wanted(c)[Len(@) + 1])
                                                  ELSE Append(@, 0)]
    /\ UNCHANGED <<asPc, asTurns, asRounds, asStatus>>

\* dispatch of the next tool: its result, or that there is no such tool.
Dispatch(c) ==
    /\ asPc[c] = "tool"
    /\ Len(asResults[c]) < Len(Wanted(c))
    /\ asCalls' = [asCalls EXCEPT ![c] = @ + 1]
    /\ asResults' = [asResults EXCEPT ![c] = Append(@, Wanted(c)[Len(@) + 1])]
    /\ UNCHANGED <<asPc, asTurns, asRounds, asStatus>>

\* All of them are back.
Return(c) ==
    /\ asPc[c] = "tool"
    /\ Len(asResults[c]) = Len(Wanted(c))
    /\ Added(c, User(asResults[c]))
    /\ NextRound(c)
    /\ UNCHANGED <<asResults, asCalls>>

\* The API or a source raises: a generic 502.
Raise(c) ==
    /\ asPc[c] \in {"model", "tool"}
    /\ Reply(c, 502)
    /\ UNCHANGED <<asTurns, asRounds, asResults, asCalls>>

Step(c) == Answer(c) \/ Dispatch(c) \/ Return(c) \/ Raise(c)

Next == \E c \in Chats : Ask(c) \/ Step(c)

Spec == Init /\ [][Next]_vars

\* Calls of the model and of the sources time out.
Fairness == \A c \in Chats : WF_vars(Step(c))

FairSpec == Spec /\ Fairness

-----------------------------------------------------------------------------
(* Properties *)

TypeOK ==
    /\ asPc \in [Chats -> {"idle", "model", "tool", "done"}]
    /\ asTurns \in [Chats -> Seq([role : {"user", "assistant"}, ids : Seq(Nat)])]
    /\ asRounds \in [Chats -> 0..MaxIterations]
    /\ asResults \in [Chats -> Seq(Nat)] /\ asCalls \in [Chats -> Nat]
    /\ asStatus \in [Chats -> {0, 200, 400, 502}]

\* Every request to the model is one the API accepts, whichever chats run beside it: turns
\* alternate, and each tool_use has its tool_result in the next turn, once.
TurnsMatch ==
    \A c \in Chats : asPc[c] = "model" =>
        LET turns == asTurns[c]
        IN  /\ Len(turns) = 2 * asRounds[c] - 1
            /\ \A i \in DOMAIN turns : (turns[i].role = "user") <=> (i % 2 = 1)
            /\ \A i \in DOMAIN turns : turns[i].role = "assistant" =>
                   turns[i + 1].ids = turns[i].ids

\* However the model goes on asking for tools, and whatever raises, each prompt is answered.
ChatsAnswered == \A c \in Chats : asPc[c] = "model" ~> asPc[c] = "done"
=============================================================================
