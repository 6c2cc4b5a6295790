----------------------------- MODULE ChatStream -----------------------------
(***************************************************************************)
(* The conversations of the chat application (apps/chat/src/agent.ts and   *)
(* conversations.ts).  A question is put into its conversation, and a task *)
(* in the background streams the words of a language model to the browser  *)
(* and puts the answer into the conversation.  Several questions may be    *)
(* under way in one conversation, and browsers come and go.                *)
(*                                                                         *)
(* The model and the AI SDK that drives it are external: they end with a   *)
(* text, without one, or with an error; after an error the SDK may still   *)
(* call onFinish with what earlier steps have brought.                     *)
(***************************************************************************)
EXTENDS Integers, Sequences

CONSTANTS Conversation,
          Chat,      (* as many questions may be under way at once         *)
          ChatLimit  (* bound: questions                                   *)

ASSUME ChatAssumption == ChatLimit \in Nat

VARIABLES messages,  (* the messages of a conversation, by created_at:     *)
                      (* whose they are, and the question they belong to   *)
          chat,       (* the tasks; here: the browser is still reading     *)
          questions,  (* questions so far                                  *)
          answered    (* history: questions the model has answered in full *)

chatVars == <<messages, chat, questions, answered>>

NotChatting == [pc |-> "idle"]
Question == 1..ChatLimit

ChatStreamTypeOK ==
  /\ messages \in [Conversation -> Seq([role : {"user", "assistant"}, to : Question])]
  /\ chat \in [Chat -> {NotChatting} \cup
       [pc : {"open", "stream", "failed"}, in : Conversation, question : Question, here : BOOLEAN]]
  /\ questions \in 0..ChatLimit /\ answered \subseteq Question

ChatStreamInit ==
  /\ messages = [v \in Conversation |-> <<>>]
  /\ chat = [c \in Chat |-> NotChatting]
  /\ questions = 0 /\ answered = {}

EndChat(c) == chat' = [chat EXCEPT ![c] = NotChatting]
AddMessage(v, role, n) == messages' = [messages EXCEPT ![v] = Append(@, [role |-> role, to |-> n])]

-----------------------------------------------------------------------------
(* POST /api/chat: the question is in the conversation before the model is *)
(* asked, which is given all that is there.                                *)
BeginChat(c, v) ==
  /\ chat[c] = NotChatting /\ questions < ChatLimit
  /\ questions' = questions + 1
  /\ AddMessage(v, "user", questions')
  /\ chat' = [chat EXCEPT ![c] = [pc |-> "open", in |-> v, question |-> questions', here |-> TRUE]]
  /\ UNCHANGED answered

(* The first two events are waited for: nobody is asked for a browser that *)
(* is gone.                                                                *)
OpenStream(c) ==
  /\ chat[c].pc = "open"
  /\ IF chat[c].here THEN chat' = [chat EXCEPT ![c].pc = "stream"] ELSE EndChat(c)
  /\ UNCHANGED <<messages, questions, answered>>

(* Broken: the end of the stream is written first, which fails when nobody *)
(* reads it.                                                               *)
RecordAfterwards(c) ==
  IF chat[c].here THEN AddMessage(chat[c].in, "assistant", chat[c].question)
  ELSE UNCHANGED messages

(* onFinish, with a text: it is recorded, then the browser is told.        *)
RecordAnswer(c) == AddMessage(chat[c].in, "assistant", chat[c].question)

ModelAnswers(c) ==
  /\ chat[c].pc = "stream"
  /\ RecordAnswer(c)
  /\ answered' = answered \cup {chat[c].question}
  /\ EndChat(c)
  /\ UNCHANGED questions

(* The model has called its tools and said nothing after it.               *)
ModelSaysNothing(c) ==
  /\ chat[c].pc = "stream"
  /\ EndChat(c)
  /\ UNCHANGED <<messages, questions, answered>>

(* onError: the browser is told, and nothing is recorded.                  *)
ModelFails(c) ==
  /\ chat[c].pc = "stream"
  /\ chat' = [chat EXCEPT ![c].pc = "failed"]
  /\ UNCHANGED <<messages, questions, answered>>

AfterFailure(c) ==
  /\ chat[c].pc = "failed"
  /\ RecordAnswer(c) \/ UNCHANGED messages
  /\ EndChat(c)
  /\ UNCHANGED <<questions, answered>>

BrowserLeaves(c) ==
  /\ chat[c].pc \in {"open", "stream"} /\ chat[c].here
  /\ chat' = [chat EXCEPT ![c].here = FALSE]
  /\ UNCHANGED <<messages, questions, answered>>

StreamsBreakOff ==
  /\ chat' = [c \in Chat |-> NotChatting]
  /\ UNCHANGED <<messages, questions, answered>>

-----------------------------------------------------------------------------
ChatStreamNext ==
  \/ \E c \in Chat :
       \/ \E v \in Conversation : BeginChat(c, v)
       \/ OpenStream(c) \/ ModelAnswers(c) \/ ModelSaysNothing(c) \/ ModelFails(c)
       \/ AfterFailure(c) \/ BrowserLeaves(c)
  \/ StreamsBreakOff

ChatStreamSpec == ChatStreamInit /\ [][ChatStreamNext]_chatVars

-----------------------------------------------------------------------------
MessagesTo(v, role, n) == {i \in DOMAIN messages[v] : messages[v][i] = [role |-> role, to |-> n]}

(* What the model has answered in full is in the conversation, whether or  *)
(* not the browser has waited for it; and every answer there follows its   *)
(* question, as the only one to it, whichever other questions are under    *)
(* way (agent.ts:57-189, conversations.ts:76-110).                         *)
AnswersAreKept ==
  /\ \A n \in answered : \E v \in Conversation : MessagesTo(v, "assistant", n) # {}
  /\ \A v \in Conversation, n \in Question : \A i \in MessagesTo(v, "assistant", n) :
       /\ MessagesTo(v, "assistant", n) = {i}
       /\ \E j \in MessagesTo(v, "user", n) : j < i
=============================================================================
