---------------------------- MODULE AgentSession ----------------------------
(***************************************************************************)
(* Sessions and turns: the command line programs (cmd/deep-agent-cli) that *)
(* work on one stored session, the turn loop of runtime.Orchestrator and   *)
(* the PersistentTurnRunner around it.                                     *)
(*                                                                         *)
(* A turn stores the user's message, lets the model answer, runs the tools *)
(* the answer asks for and goes back to the model, and stores and prints   *)
(* the last answer.  Only the user's message and that answer are stored;   *)
(* the rest of the conversation lives in the process.  Several programs    *)
(* may be started with the same -session; any of them can fail or be       *)
(* killed and the session be resumed.                                      *)
(***************************************************************************)
EXTENDS Integers, Sequences, FiniteSets

CONSTANTS
  Clis,               \* processes on the session
  Wired,              \* those with a provider and a dispatcher
  OneShot,            \* those in oneshot mode
  Calls,              \* tool call IDs
  CustomCalls,        \* those that are not of type "function"
  UnknownCalls,       \* those that name a tool the registry does not have
  CallLists,          \* the lists of tool calls an answer may carry
  NoCall,             \* the ToolCallID of a message that is not a tool's
  SystemPrompt,       \* TRUE when -system-prompt is given
  Retriever,          \* TRUE when the orchestrator has a SemanticRetriever
  MaxToolIterations,  \* -max-tool-iterations
  MaxTurns,           \* bound on the messages users enter
  MaxFaults           \* bound on failed calls and killed processes

ASSUME SessionAssumption ==
  /\ Wired \subseteq Clis /\ OneShot \subseteq Clis
  /\ NoCall \notin Calls
  /\ CustomCalls \subseteq Calls /\ UnknownCalls \subseteq Calls
  /\ CallLists \subseteq Seq(Calls) /\ <<>> \in CallLists
  /\ SystemPrompt \in BOOLEAN /\ Retriever \in BOOLEAN
  /\ MaxToolIterations \in Int
  /\ MaxTurns \in Nat /\ MaxFaults \in Nat

VARIABLES
  created,   \* the session exists
  rows,      \* its messages, in the order of their ids
  cli,       \* process -> its state
  turns,     \* messages users entered
  shown,     \* the answers printed
  alone,     \* history: those that nobody else has written to the session
             \* since they read it
  faults     \* faults so far

vars == <<created, rows, cli, turns, shown, alone, faults>>

-----------------------------------------------------------------------------
(* Messages.  A text is named by the turn and the round of the turn it     *)
(* comes from; round 0 is the user's.                                      *)

Text == [turn : Nat, round : Nat]

NoText == [turn |-> 0, round |-> 0]

Message == [role : {"system", "user", "assistant", "tool"}, text : Text,
            call : Calls \cup {NoCall}, calls : Seq(Calls)]

Plain(role, text) == [role |-> role, text |-> text, call |-> NoCall, calls |-> <<>>]

\* PersistTurn stores the role and the text, not the tool calls.
Row == [role : {"user", "assistant"}, text : Text]

\* Mutant: the whole message.
RowWithCalls(m) == m

RowOf(m) == [role |-> m.role, text |-> m.text]

\* Mutant: the newest message first.
RehydrateNewestFirst(stored) ==
  [i \in DOMAIN stored |->
     Plain(stored[Len(stored) + 1 - i].role, stored[Len(stored) + 1 - i].text)]

\* rehydrateConversation.
Rehydrate(stored) ==
  [i \in DOMAIN stored |-> Plain(stored[i].role, stored[i].text)]

\* appendConversation.
AppendConversation(conv, text) ==
  LET hasSystem == \E i \in DOMAIN conv : conv[i].role = "system"
      system    == IF SystemPrompt /\ ~hasSystem THEN <<Plain("system", NoText)>> ELSE <<>>
  IN conv \o system \o <<Plain("user", text)>>

\* The elements of s at the positions kept, in their order.
Subsequence(s, kept) ==
  LET At(n) == CHOOSE i \in kept : Cardinality({j \in kept : j <= i}) = n
  IN [n \in 1 .. Cardinality(kept) |-> s[At(n)]]

Assistants(conv) == {i \in DOMAIN conv : conv[i].role = "assistant"}

\* Mutant: the first answer found.
FirstAssistantMessage(conv) ==
  conv[CHOOSE i \in Assistants(conv) : \A j \in Assistants(conv) : i <= j]

\* finalAssistantMessage.
FinalAssistantMessage(conv) ==
  conv[CHOOSE i \in Assistants(conv) : \A j \in Assistants(conv) : j <= i]

-----------------------------------------------------------------------------
(* What the model is sent and what it sends back.                          *)

\* Mutant: always before the last message.
InjectBeforeLast(conv) ==
  SubSeq(conv, 1, Len(conv) - 1) \o <<Plain("system", NoText), conv[Len(conv)]>>

\* injectRetrievalMessage: before the user's message, when that is the last.
InjectRetrieval(conv) ==
  IF conv[Len(conv)].role # "user" THEN conv
  ELSE SubSeq(conv, 1, Len(conv) - 1) \o <<Plain("system", NoText), conv[Len(conv)]>>

\* BuildRetrievalContext gives a message in every round, also when the index
\* is not ready or has no match; without a retriever there is none.
BuildRetrievalContext == Retriever

\* providerConversation.
ProviderConversation(conv) == IF BuildRetrievalContext THEN InjectRetrieval(conv) ELSE conv

\* mapMessages: a tool's message without its ToolCallID is an error.
Mappable(conv) == \A i \in DOMAIN conv : conv[i].role = "tool" => conv[i].call # NoCall

\* mapResponse keeps the function calls.
MapResponse(calls) ==
  Subsequence(calls, {i \in DOMAIN calls : calls[i] \notin CustomCalls})

-----------------------------------------------------------------------------
(* Tools.  Of a ToolResult only its CallID matters, NoCall when empty.     *)

\* StaticRegistry.LookupTool.
LookupTool(call) == call \notin UnknownCalls

\* ToolExecutor.Execute: an error before the handler gives an empty result,
\* and so may the handler's own.
Execute(call) == {NoCall} \cup IF LookupTool(call) THEN {call} ELSE {}

\* normalizeToolResult, for results and for errors.
NormalizeToolResult(result, call) == IF result = NoCall THEN call ELSE result

-----------------------------------------------------------------------------
(* Processes.                                                              *)

Steps == {"off", "prompt", "accept", "complete", "dispatch", "reply"}

Cli == [pc : Steps,
        conv : Seq(Message),     \* the conversation
        turn : Nat,              \* the turn under way
        round : Nat,             \* answers of the model in this turn
        todo : Seq(Calls),       \* tool calls still to dispatch
        results : Seq(Message),  \* the results of those dispatched
        answer : Text]           \* TurnOutput.AssistantText

Off == [pc |-> "off", conv |-> <<>>, turn |-> 0, round |-> 0, todo |-> <<>>,
        results |-> <<>>, answer |-> NoText]

Pc(c)        == cli[c].pc
UserText(c)  == [turn |-> cli[c].turn, round |-> 0]
RoundText(c) == [turn |-> cli[c].turn, round |-> cli[c].round + 1]

\* Store.AppendMessage of the session store, from PersistTurn.
AppendMessage(c, m) ==
  /\ rows' = Append(rows, RowOf(m))
  /\ alone' = alone \cap {c}

\* Store.ListMessages, ordered by id.
ListMessages == rows

Fault == faults < MaxFaults /\ faults' = faults + 1

\* iteration+1 >= maxIterations, with at least one iteration.
LimitReached(round) == round >= IF MaxToolIterations <= 0 THEN 1 ELSE MaxToolIterations

\* CreateOrResumeSession without -session.
CreateSession(c) ==
  /\ Pc(c) = "off" /\ ~created
  /\ created' = TRUE
  /\ cli' = [cli EXCEPT ![c] = [Off EXCEPT !.pc = "prompt"]]
  /\ alone' = alone \cup {c}
  /\ UNCHANGED <<rows, turns, shown, faults>>

\* CreateOrResumeSession with -session: ListMessages gives the conversation.
\* A -repo-root other than the session's is refused; that changes nothing.
ResumeSession(c) ==
  /\ Pc(c) = "off" /\ created
  /\ cli' = [cli EXCEPT ![c] = [Off EXCEPT !.pc = "prompt", !.conv = Rehydrate(ListMessages)]]
  /\ alone' = alone \cup {c}
  /\ UNCHANGED <<created, rows, turns, shown, faults>>

\* The user enters a message, or gave it as -prompt.
ReadInput(c) ==
  /\ Pc(c) = "prompt"
  /\ turns < MaxTurns
  /\ turns' = turns + 1
  /\ cli' = [cli EXCEPT ![c] = [Off EXCEPT !.pc = "accept", !.conv = cli[c].conv,
                                           !.turn = turns + 1]]
  /\ UNCHANGED <<created, rows, shown, alone, faults>>

\* The end of the input.
Quit(c) ==
  /\ Pc(c) = "prompt" /\ c \notin OneShot
  /\ cli' = [cli EXCEPT ![c] = Off]
  /\ UNCHANGED <<created, rows, turns, shown, alone, faults>>

\* PersistTurn of the user's message; Orchestrator.RunTurn starts.
PersistUser(c) ==
  /\ Pc(c) = "accept"
  /\ AppendMessage(c, Plain("user", UserText(c)))
  /\ cli' = [cli EXCEPT ![c].pc = "complete",
                        ![c].conv = AppendConversation(@, UserText(c))]
  /\ UNCHANGED <<created, turns, shown, faults>>

\* completeTurn: the model answers, possibly with tool calls.
CompleteTurn(c, answered) ==
  LET calls == MapResponse(answered) IN
  /\ Pc(c) = "complete" /\ c \in Wired
  /\ Mappable(ProviderConversation(cli[c].conv))
  /\ cli' = [cli EXCEPT
       ![c].conv = Append(@, [Plain("assistant", RoundText(c)) EXCEPT !.calls = calls]),
       ![c].answer = RoundText(c),
       ![c].round = @ + 1,
       ![c].todo = calls,
       ![c].pc = IF calls = <<>> \/ LimitReached(cli[c].round + 1)
                 THEN "reply" ELSE "dispatch"]
  /\ UNCHANGED <<created, rows, turns, shown, alone, faults>>

\* fallbackTurnOutput: without a provider the message is echoed.
FallbackTurn(c) ==
  /\ Pc(c) = "complete" /\ c \notin Wired
  /\ cli' = [cli EXCEPT ![c].conv = Append(@, Plain("assistant", RoundText(c))),
                        ![c].answer = RoundText(c),
                        ![c].round = @ + 1,
                        ![c].pc = "reply"]
  /\ UNCHANGED <<created, rows, turns, shown, alone, faults>>

ToolMessage(c, call) == [Plain("tool", RoundText(c)) EXCEPT !.call = call]

\* dispatchToolCalls, one call; an error of the tool is a result too.  After
\* the last one the results join the conversation.
Dispatch(c, result) ==
  LET call    == Head(cli[c].todo)
      message == ToolMessage(c, NormalizeToolResult(result, call))
      results == Append(cli[c].results, message)
      rest    == Tail(cli[c].todo)
  IN /\ Pc(c) = "dispatch" /\ result \in Execute(call)
     /\ cli' = [cli EXCEPT
          ![c].todo = rest,
          ![c].results = IF rest = <<>> THEN <<>> ELSE results,
          ![c].conv = IF rest = <<>> THEN @ \o results ELSE @,
          ![c].pc = IF rest = <<>> THEN "complete" ELSE "dispatch"]
     /\ UNCHANGED <<created, rows, turns, shown, alone, faults>>

\* The provider, the retrieval of context or the registry fails, the context
\* is cancelled, or the conversation cannot be mapped: RunTurn returns an error
\* and the program ends.
TurnFails(c) ==
  /\ Pc(c) \in {"complete", "dispatch"}
  /\ IF Mappable(cli[c].conv) THEN Fault ELSE UNCHANGED faults
  /\ cli' = [cli EXCEPT ![c] = Off]
  /\ UNCHANGED <<created, rows, turns, shown, alone>>

\* The driver after the turn: OneShotDriver returns, InteractiveDriver asks for
\* the next message.
Returned(c) == IF c \in OneShot THEN Off
               ELSE [Off EXCEPT !.pc = "prompt", !.conv = cli[c].conv]

\* PersistTurn of the answer; then the driver prints TurnOutput.AssistantText.
PersistReply(c) ==
  /\ Pc(c) = "reply"
  /\ AppendMessage(c, FinalAssistantMessage(cli[c].conv))
  /\ shown' = shown \cup {cli[c].answer}
  /\ cli' = [cli EXCEPT ![c] = Returned(c)]
  /\ UNCHANGED <<created, turns, faults>>

\* AppendMessage fails, before or after the commit took effect; the turn fails
\* and the program ends.
PersistFails(c, committed) ==
  /\ Pc(c) \in {"accept", "reply"}
  /\ Fault
  /\ IF ~committed THEN UNCHANGED <<rows, alone>>
     ELSE AppendMessage(c, IF Pc(c) = "accept" THEN Plain("user", UserText(c))
                           ELSE FinalAssistantMessage(cli[c].conv))
  /\ cli' = [cli EXCEPT ![c] = Off]
  /\ UNCHANGED <<created, turns, shown>>

Kill(c) ==
  /\ Pc(c) # "off"
  /\ Fault
  /\ cli' = [cli EXCEPT ![c] = Off]
  /\ UNCHANGED <<created, rows, turns, shown, alone>>

-----------------------------------------------------------------------------
Init ==
  /\ created = FALSE
  /\ rows = <<>>
  /\ cli = [c \in Clis |-> Off]
  /\ turns = 0
  /\ shown = {}
  /\ alone = {}
  /\ faults = 0

Step(c) ==
  \/ CreateSession(c) \/ ResumeSession(c)
  \/ ReadInput(c) \/ Quit(c)
  \/ PersistUser(c)
  \/ \E calls \in CallLists : CompleteTurn(c, calls)
  \/ FallbackTurn(c)
  \/ \E result \in Calls \cup {NoCall} : Dispatch(c, result)
  \/ PersistReply(c)
  \/ TurnFails(c)
  \/ \E committed \in BOOLEAN : PersistFails(c, committed)
  \/ Kill(c)

Next == \E c \in Clis : Step(c)

Spec == Init /\ [][Next]_vars

-----------------------------------------------------------------------------
(* Every variable has its type.                                            *)
TypeOK ==
  /\ created \in BOOLEAN
  /\ rows \in Seq(Row)
  /\ cli \in [Clis -> Cli]
  /\ turns \in 0 .. MaxTurns
  /\ shown \subseteq Text
  /\ alone \subseteq Clis
  /\ faults \in 0 .. MaxFaults

(* An answer that was printed is stored, after the message it answers:     *)
(* "accepted user input is stored before execution, and a generated        *)
(* assistant reply is only surfaced after it has also been written         *)
(* successfully" (message_persistence.go), whatever else writes to the     *)
(* session and whichever tool rounds the turn went through.                *)
SurfacedIsDurable ==
  \A a \in shown :
    \E i, j \in DOMAIN rows :
      /\ i < j
      /\ rows[i] = [role |-> "user", text |-> [turn |-> a.turn, round |-> 0]]
      /\ rows[j] = [role |-> "assistant", text |-> a]

\* The messages of a conversation that are stored: the user's, and the
\* answers that no tool result follows.
IsStored(conv, i) ==
  \/ conv[i].role = "user"
  \/ conv[i].role = "assistant" /\ (i = Len(conv) \/ conv[i + 1].role # "tool")

StoredPart(conv) ==
  LET stored == Subsequence(conv, {i \in DOMAIN conv : IsStored(conv, i)})
  IN [n \in DOMAIN stored |-> RowOf(stored[n])]

(* At the prompt the conversation in the process is the stored one, through*)
(* failures, kills and resumes ("keeps the visible conversation aligned    *)
(* with durable session history", message_persistence.go), as long as no   *)
(* other program writes to the session: nothing reads it again after the   *)
(* start.                                                                  *)
HistoryAligned ==
  \A c \in alone : Pc(c) = "prompt" => StoredPart(cli[c].conv) = rows

\* The place of the current turn's user message.
TurnStart(c, conv) ==
  CHOOSE i \in DOMAIN conv : conv[i] = Plain("user", UserText(c))

\* The message at i is followed at once by the results of its tool calls, in
\* their order and with their IDs.
HasResults(conv, i) ==
  conv[i].role = "assistant" =>
    /\ i + Len(conv[i].calls) <= Len(conv)
    /\ \A k \in 1 .. Len(conv[i].calls) :
         conv[i + k].role = "tool" /\ conv[i + k].call = conv[i].calls[k]

(* In every request to the model each answer is followed by the results of *)
(* its tool calls, whether the tools failed, were not registered or left   *)
(* the ID out, and wherever the retrieval context is put in                *)
(* (orchestrator_test.go TestOrchestratorToolLoopPreservesCallIDCorrelation).*)
(* Only an earlier turn that ended at the limit on tool rounds leaves      *)
(* calls behind that were never run, those of its last answer.             *)
CallsAnswered ==
  \A c \in Clis : Pc(c) = "complete" =>
    LET conv == ProviderConversation(cli[c].conv) IN
    \A i \in DOMAIN conv :
      HasResults(conv, i) \/ (i < TurnStart(c, conv) /\ LimitReached(conv[i].text.round))

=============================================================================
