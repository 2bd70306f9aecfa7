------------------------------ MODULE ModelCall ------------------------------
(***************************************************************************)
(* One call of a model: LLMClient.chat with its retries, and the three     *)
(* ways it is used: for a document (one_shot_prose), for an object of a    *)
(* schema (StructuredCaller.call), and streamed to a terminal.             *)
(*                                                                         *)
(* A reply is abstracted to whether the output budget cut it, in which     *)
(* channel the answer is, how long it is and whether it fits the schema.   *)
(***************************************************************************)
EXTENDS Naturals, Sequences

CONSTANTS
  MaxRetries,  \* config.server.max_retries
  Rounds,      \* repair_rounds + 1, retries + 1
  Sizes        \* bound: lengths of an answer

ASSUME CallConstants == MaxRetries \in Nat /\ Rounds \in Nat \ {0} /\ Sizes \subseteq Nat \ {0}

VARIABLES
  use,       \* "prose", "structured" or "stream"; "none" before the call
  result,    \* what the caller has: "waiting", or how the call ended
  answer,    \* the number of the reply it has, 0 for none
  posts,     \* HTTP attempts of the current round
  cuts,      \* length_failures: the budget is 1.5^cuts of what it was
  best,      \* best_partial: the reply it is of, 0 for none
  asked,     \* history: the rounds asked without thinking
  replies    \* history: the replies

callVars == <<use, result, answer, posts, cuts, best, asked, replies>>

Answers == [cut : BOOLEAN, in : {"content", "reasoning", "nowhere"},
            size : Sizes, fits : BOOLEAN]
Uses    == {"prose", "structured", "stream"}
Attempts == IF MaxRetries > 1 THEN MaxRetries ELSE 1

CallTypeOK ==
  /\ use \in Uses \cup {"none"}
  /\ result \in {"waiting", "whole", "partial", "empty", "raised"}
  /\ replies \in Seq(Answers) /\ Len(replies) <= Rounds
  /\ answer \in 0 .. Len(replies) /\ best \in 0 .. Len(replies)
  /\ posts \in 0 .. Attempts /\ cuts \in 0 .. Rounds /\ asked \subseteq 1 .. Rounds

CallInit ==
  /\ use = "none" /\ result = "waiting" /\ answer = 0
  /\ posts = 0 /\ cuts = 0 /\ best = 0 /\ asked = {} /\ replies = << >>

CallModel(u) ==
  /\ use = "none"
  /\ use' = u
  /\ UNCHANGED <<result, answer, posts, cuts, best, asked, replies>>

Waiting == use # "none" /\ result = "waiting"
Round   == Len(replies) + 1

(* _is_retryable: transport errors, 5xx and 429.  A server that cannot be   *)
(* reached is one only when streaming: _post_chat turns it into             *)
(* ServerUnavailable.                                                       *)
Retryable(trouble) ==
  \/ trouble = "transient"
  \/ trouble = "unreachable" /\ use = "stream"

(* A slip: the attempt that failed is not counted.                          *)
PostFailsUncounted(trouble) ==
  /\ Waiting
  /\ posts' = posts + 1
  /\ result' = IF Retryable(trouble) /\ posts < Attempts THEN "waiting" ELSE "raised"
  /\ UNCHANGED <<use, answer, cuts, best, asked, replies>>
PostFails(trouble) ==
  /\ Waiting
  /\ posts' = posts + 1
  /\ result' = IF Retryable(trouble) /\ posts' < Attempts THEN "waiting" ELSE "raised"
  /\ UNCHANGED <<use, answer, cuts, best, asked, replies>>

(* A reply arrives.  After two budget deaths the next round is asked to do  *)
(* without thinking.                                                        *)
Receive(reply) ==
  /\ Waiting
  /\ replies' = Append(replies, reply)
  /\ posts' = 0
  /\ asked' = IF cuts >= 2 THEN asked \cup {Round} ELSE asked
  /\ UNCHANGED use

Keep(what) == result' = what /\ answer' = Round /\ UNCHANGED <<cuts, best>>

StreamReply(reply) ==
  /\ use = "stream" /\ Receive(reply)
  /\ Keep(IF reply.cut THEN "partial" ELSE "whole")

(* one_shot_prose: the text of a reply; what was thought is an answer only  *)
(* when the reply is complete.                                              *)
Text(reply) ==
  reply.in = "content" \/ (reply.in = "reasoning" /\ ~reply.cut)

(* A slip: a reply that was cut is good enough.                             *)
DocumentAnyhow(reply) == Text(reply)
Document(reply) == Text(reply) /\ ~reply.cut

ProseReply(reply) ==
  /\ use = "prose" /\ Receive(reply)
  /\ IF Document(reply) THEN Keep("whole")
     ELSE /\ cuts' = IF reply.cut THEN cuts + 1 ELSE cuts
          /\ best' = IF reply.cut /\ Text(reply)
                        /\ (best = 0 \/ reply.size > replies[best].size)
                     THEN Round ELSE best
          /\ answer' = IF Round = Rounds THEN best' ELSE 0
          /\ result' = IF Round < Rounds THEN "waiting"
                       ELSE IF best' # 0 THEN "partial" ELSE "empty"

(* StructuredCaller.call: the content, or else the reasoning, parsed and    *)
(* validated; errors are quoted back for the next round.                    *)
StructuredReply(reply) ==
  /\ use = "structured" /\ Receive(reply)
  /\ IF reply.in # "nowhere" /\ reply.fits THEN Keep("whole")
     ELSE /\ cuts' = IF reply.cut THEN cuts + 1 ELSE cuts
          /\ result' = IF Round < Rounds THEN "waiting" ELSE "raised"
          /\ UNCHANGED <<answer, best>>

CallNext ==
  \/ \E u \in Uses : CallModel(u)
  \/ \E trouble \in {"unreachable", "transient", "refused"} : PostFails(trouble)
  \/ \E reply \in Answers :
       StreamReply(reply) \/ ProseReply(reply) \/ StructuredReply(reply)

CallSpec == CallInit /\ [][CallNext]_callVars

-----------------------------------------------------------------------------
Replied == 1 .. Len(replies)
Shown(i) == replies[i].in = "content" \/ (replies[i].in = "reasoning" /\ ~replies[i].cut)

(* No caller mistakes a part for the whole, or drops an answer it had: the  *)
(* first complete document is returned, the longest partial only when every *)
(* round was cut or silent, and then as a partial; an object is one that    *)
(* fits its schema; nothing is asked for once it was there.                 *)
(* (runtime.py:604-608: `any length-truncated reply ... is retried with a   *)
(* grown budget ... the longest partial is returned with an explicit        *)
(* truncation marker rather than posing as a complete answer`.)             *)
AnswerIsWhole ==
  /\ use = "prose" =>
       /\ \A i \in Replied : (Shown(i) /\ ~replies[i].cut) => result = "whole" /\ answer = i
       /\ result = "whole" => Shown(answer) /\ ~replies[answer].cut
       /\ result = "partial" =>
            /\ Len(replies) = Rounds /\ replies[answer].cut /\ replies[answer].in = "content"
            /\ \A i \in Replied : Shown(i) => replies[i].size <= replies[answer].size
       /\ result = "empty" => \A i \in Replied : ~Shown(i)
  /\ use = "structured" =>
       /\ \A i \in Replied :
            (replies[i].fits /\ replies[i].in # "nowhere") => result = "whole" /\ answer = i
       /\ result = "whole" => replies[answer].fits
  /\ \A i \in asked : \E a, b \in 1 .. i - 1 : a # b /\ replies[a].cut /\ replies[b].cut

=============================================================================
