---------------------------- MODULE AnswerProofs ----------------------------
(***************************************************************************)
(* From a question to the screen. ToolCalling, for every set of models,    *)
(* modes and replies: no call that a reply asks for is passed over.        *)
(* Retrieval, for any documents, configurations and rankings: its types,   *)
(* that it degrades gracefully, and that fusion respects dominance.        *)
(* ChatScreen, for any tabs, sessions and scenes: its types, the history   *)
(* that a page shows, and the previews of the tools.                       *)
(***************************************************************************)
EXTENDS Retrieval, ToolCalling, ChatScreen, FiniteSetTheorems, WellFoundedInduction, TLAPS

-----------------------------------------------------------------------------
(* Tool calls.                                                             *)

(* A non-empty set of naturals has a least element, and Min is it. *)
LEMMA LeastNat ==
  ASSUME NEW S \in SUBSET Nat, S # {}
  PROVE  Min(S) \in S /\ \A j \in S : Min(S) <= j
<1>1. PICK x \in S : \A y \in S : ~ (<<y, x>> \in OpToRel(<, Nat))
  BY NatLessThanWellFounded, WFMin
<1>2. ASSUME NEW j \in S PROVE x <= j
  <2>1. ~ (j < x)
    BY <1>1, j \in Nat, x \in Nat DEF OpToRel
  <2> QED BY <2>1, j \in Nat, x \in Nat
<1> QED BY <1>2 DEF Min

(* A call that a text asks for is one of its objects, and none is found only
   where every object is nested too deep (parse_react_response). *)
LEMMA ParsedIsOfText ==
  ASSUME NEW text \in Seq(STRING)
  PROVE  \/ ParseReactResponse(text) = <<>> /\ Range(text) \subseteq {"deep"}
         \/ \E object \in Range(text) : ParseReactResponse(text) = <<object>>
<1> DEFINE calls == {i \in 1..Len(text) : IsCall(text[i])}
           names == {i \in 1..Len(text) : text[i] = "record"}
           call == IF calls # {} THEN Min(calls) ELSE 0
           name == IF names # {} THEN Min(names) ELSE 0
<1>1. ParseReactResponse(text) =
        IF call # 0 THEN <<text[call]>> ELSE IF name # 0 THEN <<text[name]>> ELSE <<>>
  <2>1. call = SelectInSeq(text, IsCall)
    BY DEF SelectInSeq
  <2>2. name = SelectInSeq(text, LAMBDA object : object = "record")
    BY DEF SelectInSeq
  <2> HIDE DEF call, name
  <2> QED BY <2>1, <2>2 DEF ParseReactResponse
<1>2. ASSUME NEW I, I \subseteq 1..Len(text), I # {}
      PROVE  Min(I) # 0 /\ text[Min(I)] \in Range(text)
  <2>0. I \in SUBSET Nat
    BY <1>2
  <2>1. Min(I) \in I
    BY <1>2, <2>0, LeastNat
  <2>2. PICK m \in 1..Len(text) : m = Min(I)
    BY <1>2, <2>1
  <2>3. m # 0 /\ text[m] \in Range(text)
    BY DEF Range
  <2> QED BY <2>2, <2>3
<1>3. calls # {} => call # 0 /\ text[call] \in Range(text)
  BY <1>2, calls \subseteq 1..Len(text)
<1>4. names # {} => name # 0 /\ text[name] \in Range(text)
  BY <1>2, names \subseteq 1..Len(text)
<1>0. (calls = {} => call = 0) /\ (names = {} => name = 0)
  OBVIOUS
<1>5. calls = {} /\ names = {} => Range(text) \subseteq {"deep"}
  BY DEF Range, IsCall
<1> HIDE DEF calls, names, call, name
<1> QED BY <1>0, <1>1, <1>3, <1>4, <1>5
(* The invocations of one answer, and what the next one is asked for after:
   the inductive invariant of the planner's answer. *)
Invocation == [via : {"raw", "native", "react"}, raised : BOOLEAN,
               reply : [calls : Seq(STRING), text : Seq(STRING), blocks : BOOLEAN]]

(* The types of a chat's binding, of the replies and of the answer. *)
ToolShape ==
  /\ bound \in Modes \cup {"none", "raw", "failed"}
  /\ via \in {"none", "raw", "native", "react"}
  /\ answer.at \in {"none", "failed", "message"}
  /\ replied \in Seq(Invocation)

(* Which way the model is being asked, and what it has replied so far. *)
NotAnswered ==
  /\ bound \in {"none", "failed"} => replied = <<>> /\ via = "none"
  /\ via # "none" => answer.at # "message"
  /\ via \in {"raw", "native"} => replied = <<>>
  /\ via = "raw" => bound = "raw"
  /\ via = "native" => bound \in {"native", "hybrid"}
  /\ via = "react" => \/ bound = "react" /\ replied = <<>>
                      \/ /\ bound = "hybrid" /\ Len(replied) \in {1, 2}
                         /\ Len(replied) = 2 => replied[2].raised
                         /\ \A i \in 1..Len(replied) : replied[i].reply.calls = <<>>

(* The inductive invariant: the types, the stage, and that no call is passed over. *)
ToolInv ==
  /\ ToolShape /\ NotAnswered /\ Len(replied) <= 3
  /\ answer.at = "message" => via = "none" /\ replied # <<>>
  /\ NoCallPassedOver

(* No chat has asked its model for anything yet. *)
LEMMA ToolInitInv == ToolInit => ToolInv
BY DEF ToolInit, ToolInv, ToolShape, NotAnswered, NoCallPassedOver, Nothing, Answer

(* build_agent_graph binds the tools, or fails to. *)
LEMMA BuildInv == ToolInv /\ BuildAgentGraph => ToolInv'
BY DEF BuildAgentGraph, ToolInv, ToolShape, NotAnswered, NoCallPassedOver, Nothing, Failure, Answer, BindTools, Modes

(* The planner calls the model one way. *)
LEMMA PlanInv == ToolInv /\ Plan => ToolInv'
BY DEF Plan, Invoke, ToolInv, ToolShape, NotAnswered, NoCallPassedOver, Nothing, Answer, Modes

(* A call that raises fails the chat, or falls back to plain text. *)
LEMMA RaiseInv == ToolInv /\ Raise => ToolInv'
<1> SUFFICES ASSUME ToolInv, Raise PROVE ToolInv'
  OBVIOUS
<1> USE DEF ToolInv, ToolShape
<1> DEFINE new == [via |-> via, raised |-> TRUE, reply |-> [calls |-> <<>>, text |-> <<>>, blocks |-> FALSE]]
<1>1. new \in Invocation
  BY <<>> \in Seq(STRING) DEF Raise, Invocation
<1>2. replied' = Append(replied, new) /\ replied' \in Seq(Invocation) /\ Len(replied') = Len(replied) + 1
  BY <1>1 DEF Raise
<1>3. CASE bound = "hybrid" /\ (via = "native" \/ ~Last(replied).raised)
  BY <1>2, <1>3 DEF Raise, NotAnswered, NoCallPassedOver, Invoke, Last, Modes
<1>4. CASE ~(bound = "hybrid" /\ (via = "native" \/ ~Last(replied).raised))
  BY <1>2, <1>4 DEF Raise, NotAnswered, NoCallPassedOver, Return, Failure, Answer, Last, Modes
<1> QED BY <1>3, <1>4

(* What an invocation brings is kept with the way it was made. *)
LEMMA Replying ==
  ASSUME ToolShape, via # "none", NEW reply \in Replies, Reply(reply)
  PROVE  /\ replied' \in Seq(Invocation) /\ Len(replied') = Len(replied) + 1
         /\ \A i \in 1..Len(replied) : replied'[i] = replied[i]
         /\ replied'[Len(replied')] = [via |-> via, raised |-> FALSE, reply |-> reply]
         /\ Last(replied').reply = reply
<1>2. [via |-> via, raised |-> FALSE, reply |-> reply] \in Invocation
  BY RepliesAssumption DEF Invocation, ToolShape
<1> QED BY <1>2 DEF Reply, ToolShape, Last

(* An answer made of the last reply passes no call over if none before it had
   any, and if it has none only for want of one that can be read. *)
LEMMA Answering ==
  ASSUME ToolInv, via # "none", NEW reply \in Replies, Reply(reply), NEW calls \in Seq(STRING),
         Return(PlannerMessage(reply, calls)), UNCHANGED <<setup, bound>>,
         Len(replied) <= 2, bound \in Modes \cup {"raw"},
         bound # "raw" =>
           \A i \in 1..Len(replied) : replied[i].reply.calls = <<>>,
         bound \in {"react", "hybrid"} /\ calls = <<>> =>
           "garbled" \in Range(reply.text) \/ Range(reply.text) \subseteq {"deep"},
         Range(calls) \subseteq Range(reply.calls) \cup Range(reply.text)
  PROVE  ToolInv'
<1>1. ToolShape
  BY DEF ToolInv
<1>2. /\ replied' \in Seq(Invocation) /\ Len(replied') = Len(replied) + 1
      /\ \A i \in 1..Len(replied) : replied'[i] = replied[i]
      /\ Last(replied').reply = reply
  BY <1>1, Replying
<1>3. answer' = [at |-> "message", calls |-> calls, text |-> reply.text] /\ via' = "none"
  BY DEF Return, PlannerMessage, Answer
<1>4. ToolShape'
  BY <1>1, <1>2, <1>3 DEF ToolShape
<1>5. NotAnswered' /\ Len(replied') <= 3
  BY <1>1, <1>2, <1>3 DEF NotAnswered, Modes, ToolShape
<1>6. NoCallPassedOver'
  <2> SUFFICES ASSUME bound \in {"react", "hybrid"}
               PROVE  /\ \A i \in 1..(Len(replied') - 1) : replied'[i].reply.calls = <<>>
                      /\ answer'.text = reply.text
                      /\ answer'.calls = <<>> => "garbled" \in Range(reply.text) \/ Range(reply.text) \subseteq {"deep"}
                      /\ Range(answer'.calls) \subseteq Range(reply.calls) \cup Range(reply.text)
    BY <1>2, <1>3 DEF NoCallPassedOver
  <2> QED BY <1>1, <1>2, <1>3 DEF ToolShape
<1>7. replied' # <<>>
  BY <1>1, <1>2 DEF ToolShape
<1> QED BY <1>3, <1>4, <1>5, <1>6, <1>7 DEF ToolInv

(* Without tools the reply is passed on as it is. *)
LEMMA RawInv == ToolInv /\ RawReply => ToolInv'
<1> SUFFICES ASSUME ToolInv, via = "raw", NEW reply \in Replies, reply.calls = <<>>,
                    Reply(reply), Return(PlannerMessage(reply, <<>>)), UNCHANGED <<setup, bound>>
             PROVE  ToolInv'
  BY DEF RawReply, UnboundReplies
<1>1. bound = "raw" /\ Len(replied) <= 2 /\ <<>> \in Seq(STRING) /\ Range(<<>>) = {}
  BY DEF ToolInv, NotAnswered, Range
<1> QED BY <1>1, Answering

(* A ReAct reply is parsed: see ParsedIsOfText. *)
LEMMA ReactInv == ToolInv /\ ReactReply => ToolInv'
<1> SUFFICES ASSUME ToolInv, via = "react", NEW reply \in Replies, reply.calls = <<>>, Reply(reply),
                    Return(PlannerMessage(reply, ToOpenAiToolCall(ParseReactResponse(reply.text)))),
                    UNCHANGED <<setup, bound>>
             PROVE  ToolInv'
  BY DEF ReactReply, UnboundReplies
<1>1. bound \in {"react", "hybrid"} /\ Len(replied) <= 2
      /\ \A i \in 1..Len(replied) : replied[i].reply.calls = <<>>
  BY DEF ToolInv, NotAnswered
<1>2. reply.text \in Seq(STRING)
  BY RepliesAssumption
<1> DEFINE calls == ToOpenAiToolCall(ParseReactResponse(reply.text))
<1>3. /\ calls \in Seq(STRING)
      /\ calls = <<>> => "garbled" \in Range(reply.text) \/ Range(reply.text) \subseteq {"deep"}
      /\ Range(calls) \subseteq Range(reply.text)
  <2>1. Range(reply.text) \subseteq STRING
    BY <1>2 DEF Range
  <2>2. CASE ParseReactResponse(reply.text) = <<>> /\ Range(reply.text) \subseteq {"deep"}
    <3>1. calls = <<>>
      BY <2>2 DEF ToOpenAiToolCall
    <3> HIDE DEF calls
    <3> QED BY <3>1, <2>2, <<>> \in Seq(STRING) DEF Range
  <2>3. ASSUME NEW object \in Range(reply.text), ParseReactResponse(reply.text) = <<object>>
        PROVE  /\ calls \in Seq(STRING)
               /\ calls = <<>> => "garbled" \in Range(reply.text) \/ Range(reply.text) \subseteq {"deep"}
               /\ Range(calls) \subseteq Range(reply.text)
    <3>1. calls = IF object = "garbled" THEN <<>> ELSE <<object>>
      BY <2>3 DEF ToOpenAiToolCall
    <3>2. object \in STRING /\ <<object>> \in Seq(STRING) /\ Range(<<object>>) = {object}
      BY <2>1 DEF Range
    <3>3. <<>> \in Seq(STRING) /\ Range(<<>>) = {} /\ <<object>> # <<>>
      BY DEF Range
    <3> HIDE DEF calls
    <3> QED BY <3>1, <3>2, <3>3
  <2> QED BY <1>2, <2>2, <2>3, ParsedIsOfText
<1> HIDE DEF calls
<1>4. Return(PlannerMessage(reply, calls))
  BY DEF calls
<1> QED BY <1>1, <1>3, <1>4, Answering DEF Modes

(* A native reply is passed on, or asked again as text where it has no calls. *)
LEMMA NativeInv == ToolInv /\ NativeReply => ToolInv'
<1> SUFFICES ASSUME ToolInv, via = "native", NEW reply \in Replies, Reply(reply),
                    IF bound = "hybrid" THEN HybridReply(reply) ELSE Return(PlannerMessage(reply, reply.calls)),
                    UNCHANGED <<setup, bound>>
             PROVE  ToolInv'
  BY DEF NativeReply
<1>1. ToolShape /\ bound \in {"native", "hybrid"} /\ replied = <<>>
  BY DEF ToolInv, NotAnswered
<1>2. reply.text \in Seq(STRING) /\ reply.calls \in Seq(STRING)
  BY RepliesAssumption
<1>3. CASE Return(PlannerMessage(reply, reply.calls)) /\
           (bound = "hybrid" => reply.calls # <<>> \/ ParseReactResponse(reply.text) = <<>>)
  <2>1. bound \in {"react", "hybrid"} /\ reply.calls = <<>> => Range(reply.text) \subseteq {"deep"}
    <3>1. \/ ParseReactResponse(reply.text) = <<>> /\ Range(reply.text) \subseteq {"deep"}
          \/ \E object \in Range(reply.text) : ParseReactResponse(reply.text) = <<object>>
      BY <1>2, ParsedIsOfText
    <3>2. \A object : <<object>> # <<>>
      OBVIOUS
    <3>3. bound = "hybrid" /\ reply.calls = <<>> => ParseReactResponse(reply.text) = <<>>
      BY <1>3
    <3> QED BY <1>1, <3>1, <3>2, <3>3
  <2>2. Len(replied) <= 2 /\ \A i \in 1..Len(replied) : replied[i].reply.calls = <<>>
    BY <1>1
  <2> QED BY <1>1, <1>2, <1>3, <2>1, <2>2, Answering DEF Modes
<1>4. CASE bound = "hybrid" /\ reply.calls = <<>> /\ Invoke("react")
  <2>1. /\ replied' \in Seq(Invocation) /\ Len(replied') = Len(replied) + 1
        /\ replied'[Len(replied')] = [via |-> via, raised |-> FALSE, reply |-> reply]
    BY <1>1, Replying
  <2>2. Len(replied') = 1 /\ replied'[1].reply.calls = <<>>
    BY <1>1, <1>4, <2>1
  <2> QED BY <1>1, <1>4, <2>1, <2>2 DEF ToolInv, ToolShape, NotAnswered, NoCallPassedOver, Invoke
<1> QED BY <1>1, <1>3, <1>4 DEF HybridReply

(* So every step keeps it. *)
LEMMA ToolNextInv == ToolInv /\ [ToolNext]_toolVars => ToolInv'
<1>1. CASE UNCHANGED toolVars
  BY <1>1 DEF toolVars, ToolInv, ToolShape, NotAnswered, NoCallPassedOver
<1> QED BY <1>1, BuildInv, PlanInv, RawInv, ReactInv, NativeInv, RaiseInv DEF ToolNext

(* The answer of the planner has the calls the model made, through every
   fallback of the hybrid model (tool_calling_adapter.py:225, 322). *)
THEOREM CallsHeard == ToolSpec => [](ToolTypeOK /\ NoCallPassedOver)
<1>1. ToolInv => ToolTypeOK /\ NoCallPassedOver
  BY DEF ToolInv, ToolShape, ToolTypeOK
<1> QED BY <1>1, ToolInitInv, ToolNextInv, PTL DEF ToolSpec

-----------------------------------------------------------------------------
(* Lists that are sorted, and selected from (Ordering).                    *)

(* Sorting: in a strict total order every element of a finite set gets a place
   of its own, and the places are in the order (Python's sorted). *)
LEMMA OrderedIsSorted ==
  ASSUME NEW S, IsFiniteSet(S), NEW R,
         \A x \in S : <<x, x>> \notin R,
         \A x, y, z \in S : <<x, y>> \in R /\ <<y, z>> \in R => <<x, z>> \in R,
         \A x, y \in S : x # y => <<x, y>> \in R \/ <<y, x>> \in R
  PROVE  /\ Cardinality(S) \in Nat
         /\ Ordered(S, R) \in [1..Cardinality(S) -> S]
         /\ \A x \in S : \E i \in 1..Cardinality(S) : Ordered(S, R)[i] = x
         /\ \A i, j \in 1..Cardinality(S) : i < j => <<Ordered(S, R)[i], Ordered(S, R)[j]>> \in R
<1> DEFINE n == Cardinality(S)
           ahead(x) == {y \in S : <<y, x>> \in R}
           place == [x \in S |-> Cardinality(ahead(x)) + 1]
<1>1. n \in Nat
  BY FS_CardinalityType
<1>2. \A x \in S : IsFiniteSet(ahead(x)) /\ Cardinality(ahead(x)) \in Nat
  BY FS_Subset, FS_CardinalityType
<1>3. ASSUME NEW x \in S PROVE place[x] \in 1..n
  <2>1. IsFiniteSet(S \ {x}) /\ Cardinality(S \ {x}) = n - 1
    BY FS_RemoveElement
  <2>2. ahead(x) \in SUBSET (S \ {x})
    OBVIOUS
  <2> HIDE DEF ahead, n
  <2>3. Cardinality(ahead(x)) <= n - 1
    BY <2>1, <2>2, FS_Subset
  <2> USE DEF n
  <2> QED BY <1>1, <1>2, <2>3
<1>4. ASSUME NEW x \in S, NEW y \in S, <<x, y>> \in R PROVE place[x] < place[y]
  <2>1. IsFiniteSet(ahead(x) \cup {x}) /\ Cardinality(ahead(x) \cup {x}) = Cardinality(ahead(x)) + 1
    BY <1>2, FS_AddElement, x \notin ahead(x)
  <2>2. (ahead(x) \cup {x}) \in SUBSET ahead(y)
    BY <1>4
  <2>3. Cardinality(ahead(x) \cup {x}) <= Cardinality(ahead(y))
    BY <1>2, <2>2, FS_Subset
  <2> QED BY <1>2, <2>1, <2>3
<1> HIDE DEF n, place
<1>5. place \in Injection(S, 1..n)
  <2>1. place \in [S -> 1..n]
    BY <1>3 DEF place
  <2>2. \A x, y \in S : x # y => place[x] # place[y]
    <3>1. \A x \in S : place[x] \in Int
      BY <2>1, <1>1
    <3>2. ASSUME NEW x \in S, NEW y \in S, x # y PROVE place[x] # place[y]
      <4>1. place[x] \in Int /\ place[y] \in Int
        BY <3>1
      <4>2. CASE <<x, y>> \in R
        <5>1. place[x] < place[y]
          BY <1>4, <4>2
        <5> QED BY <4>1, <5>1
      <4>3. CASE <<y, x>> \in R
        <5>1. place[y] < place[x]
          BY <1>4, <4>3
        <5> QED BY <4>1, <5>1
      <4> QED BY <3>2, <4>2, <4>3
    <3> QED BY <3>2
  <2> QED BY <2>1, <2>2 DEF Injection, IsInjective
<1>6. place \in Surjection(S, 1..n)
  <2>1. IsFiniteSet(1..n) /\ Cardinality(1..n) = n
    BY <1>1, FS_Interval, 1 \in Int, n \in Int
  <2> QED BY <1>5, <2>1, FS_Injection DEF n
<1>7. \A i \in 1..n : Ordered(S, R)[i] = CHOOSE x \in S : place[x] = i
  <2> SUFFICES ASSUME NEW i \in 1..n PROVE Ordered(S, R)[i] = CHOOSE x \in S : place[x] = i
    OBVIOUS
  <2>1. \A x \in S : place[x] = i <=> Cardinality(ahead(x)) = i - 1
    BY <1>1, <1>2 DEF place
  <2>2. Ordered(S, R)[i] = CHOOSE x \in S : Cardinality(ahead(x)) = i - 1
    BY DEF Ordered, n
  <2> HIDE DEF ahead
  <2> QED BY <2>1, <2>2
<1>8. \A i \in 1..n : Ordered(S, R)[i] \in S /\ place[Ordered(S, R)[i]] = i
  BY <1>6, <1>7 DEF Surjection
<1>9. Ordered(S, R) \in [1..n -> S]
  <2>1. PICK f : f = Ordered(S, R)
    OBVIOUS
  <2>2. f = [i \in 1..n |-> CHOOSE x \in S : Cardinality(ahead(x)) = i - 1]
    BY <2>1 DEF Ordered, n
  <2> HIDE DEF ahead
  <2>3. f = [i \in 1..n |-> f[i]]
    BY <2>2
  <2> QED BY <1>8, <2>1, <2>3
<1>10. ASSUME NEW x \in S PROVE \E i \in 1..n : Ordered(S, R)[i] = x
  <2>1. place[x] \in 1..n /\ Ordered(S, R)[place[x]] \in S
        /\ place[Ordered(S, R)[place[x]]] = place[x]
    BY <1>3, <1>8
  <2> QED BY <1>5, <2>1 DEF Injection, IsInjective
<1>11. ASSUME NEW i \in 1..n, NEW j \in 1..n, i < j
       PROVE  <<Ordered(S, R)[i], Ordered(S, R)[j]>> \in R
  <2> DEFINE x == Ordered(S, R)[i]
             y == Ordered(S, R)[j]
  <2>1. x \in S /\ y \in S /\ place[x] = i /\ place[y] = j
    BY <1>8
  <2> HIDE DEF x, y
  <2>2. x # y /\ ~ (<<y, x>> \in R)
    BY <1>1, <1>4, <1>11, <2>1
  <2>3. <<x, y>> \in R
    BY <2>1, <2>2
  <2> QED BY <2>3 DEF x, y
<1> QED BY <1>1, <1>9, <1>10, <1>11 DEF n

(* Filtering: the positions taken are taken in the order of the sequence (a
   comprehension with an `if`). *)
LEMMA Selected ==
  ASSUME NEW S, NEW s \in Seq(S), NEW I \in SUBSET DOMAIN s
  PROVE  /\ SelectAt(s, I) \in Seq(S)
         /\ \E at \in [1..Len(SelectAt(s, I)) -> I] :
              /\ \A k \in 1..Len(SelectAt(s, I)) : SelectAt(s, I)[k] = s[at[k]]
              /\ \A k, l \in 1..Len(SelectAt(s, I)) : k < l => at[k] < at[l]
              /\ \A i \in I : \E k \in 1..Len(SelectAt(s, I)) : at[k] = i
<1> DEFINE R == {pair \in I \X I : pair[1] < pair[2]}
           at == Ordered(I, R)
           n == Cardinality(I)
<1>1. PICK m \in Nat : DOMAIN s = 1..m
  OBVIOUS
<1>2. I \subseteq Nat /\ IsFiniteSet(I)
  <2>1. IsFiniteSet(1..m)
    BY FS_Interval, 1 \in Int, m \in Int
  <2> QED BY <1>1, <2>1, FS_Subset
<1>3. \A x, y \in I : <<x, y>> \in R <=> x < y
  OBVIOUS
<1>4. /\ \A x \in I : <<x, x>> \notin R
      /\ \A x, y, z \in I : <<x, y>> \in R /\ <<y, z>> \in R => <<x, z>> \in R
      /\ \A x, y \in I : x # y => <<x, y>> \in R \/ <<y, x>> \in R
  <2> HIDE DEF R
  <2> QED BY <1>2, <1>3
<1> HIDE DEF R
<1>5. /\ n \in Nat /\ at \in [1..n -> I]
      /\ \A x \in I : \E i \in 1..n : at[i] = x
      /\ \A i, j \in 1..n : i < j => <<at[i], at[j]>> \in R
  <2>1. /\ Cardinality(I) \in Nat
        /\ Ordered(I, R) \in [1..Cardinality(I) -> I]
        /\ \A x \in I : \E i \in 1..Cardinality(I) : Ordered(I, R)[i] = x
        /\ \A i, j \in 1..Cardinality(I) : i < j => <<Ordered(I, R)[i], Ordered(I, R)[j]>> \in R
    BY <1>2, <1>4, OrderedIsSorted, Zenon
  <2> QED BY <2>1
<1> HIDE DEF n, at
<1>6. SelectAt(s, I) = [k \in 1..n |-> s[at[k]]]
  BY DEF SelectAt, at, n, R
<1>7. \A k \in 1..n : s[at[k]] \in S
  BY <1>1, <1>5
<1>8. SelectAt(s, I) \in Seq(S) /\ Len(SelectAt(s, I)) = n
  BY <1>5, <1>6, <1>7
<1>9. \A k, l \in 1..n : k < l => at[k] < at[l]
  BY <1>3, <1>5
<1> QED BY <1>5, <1>6, <1>8, <1>9

-----------------------------------------------------------------------------
(* Retrieval: fusion (rrf_fusion), and the rerankers.                      *)

(* rrf_fusion's shares fall with the rank. *)
LEMMA DivisionFalls ==
  ASSUME NEW d \in Nat, NEW m \in Nat, NEW n \in Nat, 0 < m, m <= n
  PROVE  d \div m \in Nat /\ d \div n <= d \div m
<1>1. PICK p, q : p = d \div m /\ q = d \div n
  OBVIOUS
<1>2. p \in Nat /\ q \in Nat /\ m * p <= d /\ d < m * (p + 1) /\ n * q <= d
  BY <1>1
<1>3. ASSUME p < q PROVE FALSE
  <2>1. p + 1 <= q
    BY <1>2, <1>3
  <2>2. m * (p + 1) <= m * q
    BY <1>2, <2>1
  <2>3. m * q <= n * q
    BY <1>2
  <2>4. m * (p + 1) \in Nat /\ m * q \in Nat /\ n * q \in Nat
    BY <1>2
  <2> QED BY <1>2, <2>2, <2>3, <2>4
<1> QED BY <1>1, <1>2, <1>3

(* A leg's weight keeps the order of its shares. *)
LEMMA WeightKeepsOrder ==
  ASSUME NEW w \in Nat, NEW a \in Nat, NEW b \in Nat, a <= b
  PROVE  w * a \in Nat /\ w * a <= w * b
OBVIOUS

(* A ranking is a sequence without repetition, and a document's rank its
   place in it. *)
LEMMA RankingFacts ==
  ASSUME NEW n \in Int, NEW s \in Rankings(n)
  PROVE  /\ s \in Seq(Ids) /\ Len(s) <= n /\ IsInjective(s)
         /\ \A x \in Range(s) : Rank(s, x) \in 1..Len(s) /\ s[Rank(s, x)] = x
         /\ \A i \in 1..Len(s) : s[i] \in Range(s) /\ Rank(s, s[i]) = i
         /\ IsFiniteSet(Range(s)) /\ Cardinality(Range(s)) = Len(s)
<1>1. PICK m \in 0..n : s \in [1..m -> Ids] /\ IsInjective(s)
  BY DEF Rankings, BoundedSeq, SeqOf
<1>2. s \in Seq(Ids) /\ Len(s) = m /\ DOMAIN s = 1..m /\ m \in Nat
  BY <1>1
<1>3. \A x \in Range(s) : Rank(s, x) \in 1..m /\ s[Rank(s, x)] = x
  BY <1>2 DEF Range, Rank
<1>4. \A i \in 1..m : s[i] \in Range(s) /\ Rank(s, s[i]) = i
  BY <1>1, <1>2, <1>3 DEF Range, IsInjective
<1>5. IsFiniteSet(1..m) /\ Cardinality(1..m) = m
  BY <1>2, FS_Interval, 1 \in Int, m \in Int
<1>6. s \in Surjection(1..m, Range(s)) /\ s \in Injection(1..m, Range(s))
  BY <1>1, <1>2 DEF Surjection, Injection, Range, IsInjective
<1>7. IsFiniteSet(Range(s)) /\ Cardinality(Range(s)) = m
  BY <1>5, <1>6, FS_Surjection
<1> QED BY <1>1, <1>2, <1>3, <1>4, <1>7

(* s[:n] *)
LEMMA PrefixFacts ==
  ASSUME NEW S, NEW s \in Seq(S), NEW n \in Nat
  PROVE  /\ Prefix(s, n) \in Seq(S) /\ Len(Prefix(s, n)) = Lesser(n, Len(s))
         /\ \A i \in 1..Len(Prefix(s, n)) : Prefix(s, n)[i] = s[i]
         /\ IsInjective(s) => IsInjective(Prefix(s, n))
         /\ Range(Prefix(s, n)) \subseteq Range(s)
<1>1. PICK p : p = Prefix(s, n)
  OBVIOUS
<1>2. PICK m \in Nat : m = Lesser(n, Len(s)) /\ m <= Len(s)
  BY DEF Lesser
<1>3. p = SubSeq(s, 1, m)
  BY <1>1, <1>2 DEF Prefix, Lesser
<1>4. p \in Seq(S) /\ Len(p) = m /\ \A i \in 1..m : p[i] = s[i]
  BY <1>2, <1>3
<1>5. IsInjective(s) => IsInjective(p)
  BY <1>2, <1>4 DEF IsInjective
<1>6. Range(p) \subseteq Range(s)
  BY <1>2, <1>4 DEF Range
<1> QED BY <1>1, <1>2, <1>4, <1>5, <1>6

(* Where a ranking has a document; what it has not comes last. *)
Place(s, x) == IF x \in Range(s) THEN Rank(s, x) ELSE Len(s) + 1
(* The weights of the two legs. *)
Weighted == config.vectorWeight \in Nat /\ config.bm25Weight \in Nat

(* What a leg gives a document falls with the document's place in it. *)
LEMMA ShareFalls ==
  ASSUME NEW n \in Int, NEW s \in Rankings(n), NEW w \in Nat, NEW x, NEW y, Place(s, x) <= Place(s, y)
  PROVE  Share(s, x, w) \in Nat /\ Share(s, y, w) \in Nat /\ Share(s, y, w) <= Share(s, x, w)
<1>1. \A z \in Range(s) : Rank(s, z) \in 1..Len(s)
  BY RankingFacts
<1>2. PICK m \in Nat : m = Len(s)
  BY RankingFacts
<1>3. \A z : Share(s, z, w) \in Nat
  <2>1. ASSUME NEW z \in Range(s) PROVE Denominator \div (KConstant + Rank(s, z)) \in Nat
    BY <1>1, <1>2, DivisionFalls, RetrievalAssumption DEF KConstant
  <2> QED BY <2>1, WeightKeepsOrder DEF Share
<1>4. CASE x \in Range(s) /\ y \in Range(s)
  <2>1. PICK i \in Nat, j \in Nat : i = KConstant + Rank(s, x) /\ j = KConstant + Rank(s, y)
    BY <1>1, <1>2, <1>4 DEF KConstant
  <2>2. 0 < i /\ i <= j
    BY <1>1, <1>2, <1>4, <2>1 DEF KConstant, Place
  <2>3. Denominator \div i \in Nat /\ Denominator \div j \in Nat /\ Denominator \div j <= Denominator \div i
    BY <2>2, DivisionFalls, RetrievalAssumption, 0 < j, j <= j
  <2>4. w * (Denominator \div j) <= w * (Denominator \div i)
    BY <2>3, WeightKeepsOrder
  <2> QED BY <1>3, <1>4, <2>1, <2>4 DEF Share
<1>5. CASE y \notin Range(s)
  BY <1>3, <1>5 DEF Share
<1>6. CASE x \notin Range(s) /\ y \in Range(s)
  BY <1>1, <1>2, <1>6 DEF Place
<1> QED BY <1>4, <1>5, <1>6

(* The ids of the two legs, each with the order of its arrival. *)
LEMMA ArrivalFacts ==
  ASSUME NEW n \in Int, NEW v \in Rankings(n), NEW b \in Rankings(n)
  PROVE  \A x, y \in Range(v) \cup Range(b) :
           Arrival(v, b, x) \in Nat /\ (Arrival(v, b, x) = Arrival(v, b, y) => x = y)
<1>1. PICK p \in Nat, q \in Nat : p = Len(v) /\ q = Len(b)
  BY RankingFacts
<1>2. \A x \in Range(v) : Rank(v, x) \in 1..p /\ v[Rank(v, x)] = x
  BY <1>1, RankingFacts
<1>3. \A x \in Range(b) : Rank(b, x) \in 1..q /\ b[Rank(b, x)] = x
  BY <1>1, RankingFacts
<1> SUFFICES ASSUME NEW x \in Range(v) \cup Range(b), NEW y \in Range(v) \cup Range(b)
             PROVE  Arrival(v, b, x) \in Nat /\ (Arrival(v, b, x) = Arrival(v, b, y) => x = y)
  OBVIOUS
<1> QED BY <1>1, <1>2, <1>3 DEF Arrival

(* A document's score is a natural number of hundredths of the denominator. *)
LEMMA RrfType ==
  ASSUME Weighted, NEW n \in Int, NEW v \in Rankings(n), NEW b \in Rankings(n), NEW x
  PROVE  Rrf(v, b, x) \in Nat
<1>1. Place(v, x) \in Int /\ Place(b, x) \in Int
  <2>1. Len(v) \in Nat /\ Len(b) \in Nat
    BY RankingFacts
  <2> QED BY <2>1, RankingFacts DEF Place
<1>2. Share(v, x, config.vectorWeight) \in Nat /\ Share(b, x, config.bm25Weight) \in Nat
  BY <1>1, ShareFalls DEF Weighted
<1> QED BY <1>2 DEF Rrf

(* What rrf_fusion sorts by is a strict total order of the documents. *)
Ids2(v, b) == Range(v) \cup Range(b)
(* The order that rrf_fusion's key puts them in. *)
Sorting(v, b) == {pair \in Ids2(v, b) \X Ids2(v, b) : Before(v, b, pair[1], pair[2])}

(* The key that rrf_fusion sorts by orders all documents of the two legs: by score,
   and among equals by who arrived first. *)
LEMMA SortingIsTotal ==
  ASSUME Weighted, NEW n \in Int, NEW v \in Rankings(n), NEW b \in Rankings(n)
  PROVE  LET S == Ids2(v, b) R == Sorting(v, b) IN
         /\ IsFiniteSet(S) /\ S \subseteq Ids
         /\ \A x, y \in S : <<x, y>> \in R <=> Before(v, b, x, y)
         /\ \A x \in S : <<x, x>> \notin R
         /\ \A x, y, z \in S : <<x, y>> \in R /\ <<y, z>> \in R => <<x, z>> \in R
         /\ \A x, y \in S : x # y => <<x, y>> \in R \/ <<y, x>> \in R
<1> DEFINE S == Ids2(v, b)
           R == Sorting(v, b)
<1>1. \A x \in S : Rrf(v, b, x) \in Nat /\ Arrival(v, b, x) \in Nat
  BY RrfType, ArrivalFacts DEF Ids2
<1>2. \A x, y \in S : Arrival(v, b, x) = Arrival(v, b, y) => x = y
  BY ArrivalFacts DEF Ids2
<1>3. \A x, y \in S : <<x, y>> \in R <=> Before(v, b, x, y)
  BY DEF Sorting
<1>4. IsFiniteSet(S)
  BY RankingFacts, FS_Union DEF Ids2
<1>5. S \subseteq Ids
  <2>1. v \in Seq(Ids) /\ b \in Seq(Ids)
    BY RankingFacts
  <2> QED BY <2>1 DEF Ids2, Range
<1> HIDE DEF S, R
<1>6. \A x \in S : ~ Before(v, b, x, x)
  BY <1>1 DEF Before
<1>7. \A x, y, z \in S : Before(v, b, x, y) /\ Before(v, b, y, z) => Before(v, b, x, z)
  BY <1>1 DEF Before
<1>8. \A x, y \in S : x # y => Before(v, b, x, y) \/ Before(v, b, y, x)
  BY <1>1, <1>2 DEF Before
<1>9. /\ \A x \in S : <<x, x>> \notin R
      /\ \A x, y, z \in S : <<x, y>> \in R /\ <<y, z>> \in R => <<x, z>> \in R
      /\ \A x, y \in S : x # y => <<x, y>> \in R \/ <<y, x>> \in R
  BY <1>3, <1>6, <1>7, <1>8
<1> QED BY <1>3, <1>4, <1>5, <1>9 DEF S, R

(* What rrf_fusion returns: so many of the documents, each once, and with each
   document those that come before it. *)
LEMMA FusedFacts ==
  ASSUME Weighted, NEW n \in Int, NEW v \in Rankings(n), NEW b \in Rankings(n), NEW k \in Nat
  PROVE  /\ Fuse(v, b, k) \in Seq(Ids) /\ IsInjective(Fuse(v, b, k))
         /\ Range(Fuse(v, b, k)) \subseteq Ids2(v, b)
         /\ Len(Fuse(v, b, k)) = Lesser(k, Cardinality(Ids2(v, b)))
         /\ \A x \in Ids2(v, b), y \in Range(Fuse(v, b, k)) :
              Before(v, b, x, y) => /\ x \in Range(Fuse(v, b, k))
                                    /\ Rank(Fuse(v, b, k), x) < Rank(Fuse(v, b, k), y)
<1>1. PICK S, R : S = Ids2(v, b) /\ R = Sorting(v, b)
  OBVIOUS
<1>2. /\ IsFiniteSet(S) /\ S \subseteq Ids
      /\ \A x, y \in S : <<x, y>> \in R <=> Before(v, b, x, y)
      /\ \A x \in S : <<x, x>> \notin R
      /\ \A x, y, z \in S : <<x, y>> \in R /\ <<y, z>> \in R => <<x, z>> \in R
      /\ \A x, y \in S : x # y => <<x, y>> \in R \/ <<y, x>> \in R
  BY <1>1, SortingIsTotal
<1>3. PICK m, s : m = Cardinality(S) /\ s = Ordered(S, R)
  OBVIOUS
<1>4. /\ m \in Nat /\ s \in [1..m -> S]
      /\ \A x \in S : \E i \in 1..m : s[i] = x
      /\ \A i, j \in 1..m : i < j => <<s[i], s[j]>> \in R
  BY <1>2, <1>3, OrderedIsSorted
<1>5. s \in Seq(Ids) /\ Len(s) = m /\ DOMAIN s = 1..m
  BY <1>2, <1>4
<1>6. IsInjective(s)
  <2> SUFFICES ASSUME NEW i \in 1..m, NEW j \in 1..m, s[i] = s[j], i # j PROVE FALSE
    BY <1>5 DEF IsInjective
  <2>1. i < j \/ j < i
    OBVIOUS
  <2> QED BY <1>2, <1>4, <2>1
<1>7. PICK f : f = Fuse(v, b, k)
  OBVIOUS
<1>8. f = Prefix(s, k)
  BY <1>1, <1>3, <1>7 DEF Fuse, Sorting, Ids2
<1>9. /\ f \in Seq(Ids) /\ Len(f) = Lesser(k, m) /\ IsInjective(f)
      /\ \A i \in 1..Len(f) : f[i] = s[i]
  BY <1>5, <1>6, <1>8, PrefixFacts
<1>10. PICK c \in Nat : c = Len(f) /\ c <= m
  BY <1>4, <1>9 DEF Lesser
<1>11. \A i \in 1..c : f[i] \in Range(f) /\ Rank(f, f[i]) = i
  <2> SUFFICES ASSUME NEW i \in 1..c PROVE f[i] \in Range(f) /\ Rank(f, f[i]) = i
    OBVIOUS
  <2>1. DOMAIN f = 1..c
    BY <1>9, <1>10
  <2>2. \A j \in DOMAIN f : f[j] = f[i] <=> j = i
    BY <1>9, <2>1 DEF IsInjective
  <2> QED BY <2>1, <2>2 DEF Range, Rank
<1>12. Range(f) = {f[i] : i \in 1..c}
  BY <1>9, <1>10 DEF Range
<1>13. Range(f) \subseteq S
  BY <1>4, <1>9, <1>10, <1>12
<1>14. ASSUME NEW x \in S, NEW y \in Range(f), Before(v, b, x, y)
       PROVE  x \in Range(f) /\ Rank(f, x) < Rank(f, y)
  <2>1. PICK i \in 1..m : s[i] = x
    BY <1>4
  <2>2. PICK j \in 1..c : f[j] = y
    BY <1>12
  <2>3. s[j] = y /\ j \in 1..m
    <3>1. j \in 1..Len(f)
      BY <1>10
    <3>2. f[j] = s[j]
      BY <3>1, <1>9
    <3> QED BY <1>4, <1>10, <2>2, <3>2
  <2>4. i < j
    <3>1. ~ (j < i)
      BY <1>2, <1>4, <1>14, <2>1, <2>3, y \in S
    <3>2. i # j
      BY <1>2, <1>14, <2>1, <2>3
    <3> QED BY <3>1, <3>2
  <2>5. i \in 1..c /\ f[i] = x
    BY <1>9, <1>10, <2>1, <2>4
  <2> QED BY <1>11, <2>2, <2>4, <2>5
<1> QED BY <1>1, <1>3, <1>7, <1>9, <1>13, <1>14

(* A document that is at least as well placed by both legs comes before, ties
   of the shares included: the vector leg's order decides those. *)
LEMMA DominanceFirst ==
  ASSUME Weighted, NEW n \in Int, NEW v \in Rankings(n), NEW b \in Rankings(n),
         NEW x, NEW y \in Ids2(v, b),
         Place(v, x) <= Place(v, y), Place(b, x) <= Place(b, y),
         Place(v, x) < Place(v, y) \/ Place(b, x) < Place(b, y)
  PROVE  x \in Ids2(v, b) /\ Before(v, b, x, y)
<1>1. PICK p \in Nat, q \in Nat : p = Len(v) /\ q = Len(b)
  BY RankingFacts
<1>2. /\ \A z \in Range(v) : Rank(v, z) \in 1..p /\ v[Rank(v, z)] = z
      /\ \A z \in Range(b) : Rank(b, z) \in 1..q /\ b[Rank(b, z)] = z
  BY <1>1, RankingFacts
<1>3. x \in Ids2(v, b)
  BY <1>1, <1>2 DEF Place, Ids2
<1>4. Rrf(v, b, y) <= Rrf(v, b, x) /\ Rrf(v, b, x) \in Nat /\ Rrf(v, b, y) \in Nat
  <2>1. /\ Share(v, x, config.vectorWeight) \in Nat /\ Share(v, y, config.vectorWeight) \in Nat
        /\ Share(v, y, config.vectorWeight) <= Share(v, x, config.vectorWeight)
    BY ShareFalls DEF Weighted
  <2>2. /\ Share(b, x, config.bm25Weight) \in Nat /\ Share(b, y, config.bm25Weight) \in Nat
        /\ Share(b, y, config.bm25Weight) <= Share(b, x, config.bm25Weight)
    BY ShareFalls DEF Weighted
  <2> QED BY <2>1, <2>2 DEF Rrf
<1>5. Arrival(v, b, x) < Arrival(v, b, y)
  <2>1. CASE x \in Range(v) /\ y \in Range(v)
    <3>1. Rank(v, x) <= Rank(v, y) /\ x # y
      BY <1>1, <1>2, <2>1 DEF Place
    <3> QED BY <1>2, <2>1, <3>1 DEF Arrival
  <2>2. CASE x \in Range(v) /\ y \notin Range(v)
    BY <1>1, <1>2, <1>3, <2>2 DEF Arrival, Ids2
  <2>3. CASE x \notin Range(v)
    <3>1. y \notin Range(v) /\ x \in Range(b) /\ y \in Range(b)
      BY <1>1, <1>2, <1>3, <2>3 DEF Place, Ids2
    <3>2. Rank(b, x) < Rank(b, y)
      BY <1>1, <1>2, <2>3, <3>1 DEF Place
    <3> QED BY <1>1, <1>2, <2>3, <3>1, <3>2 DEF Arrival
  <2> QED BY <2>1, <2>2, <2>3
<1> QED BY <1>3, <1>4, <1>5 DEF Before

(* What both legs have found, and how many of it a retrieval has to keep. *)
Pool == UNION {Range(found[l]) : l \in Legs}
Keeps == IF retriever = "hybrid" THEN Lesser(config.fused, Cardinality(Pool)) ELSE Cardinality(Pool)

(* The types of a configuration. *)
Typed(c) ==
  /\ c.topK \in Int /\ c.perLeg \in Int /\ c.fused \in Int /\ c.vectorWeight \in Int /\ c.bm25Weight \in Int
  /\ c.enabled \in BOOLEAN /\ c.chain \in Seq(STRING)

(* The types of a retrieval: RetrievalTypeOK, field by field. *)
RetrievalShape ==
  /\ Typed(config) /\ ValidConfig(config) /\ pooled \in BOOLEAN
  /\ retriever \in {"hybrid", "bm25", "vector", "empty"}
  /\ leg \in [Legs -> {"pending", "ok", "failed"}]
  /\ rstage \in {"legs", "load", "health", "rerank", "done", "raised"}
  /\ found \in [Legs -> Rankings(config.perLeg)]
  /\ ranked \in Seq(Ids)
  /\ turn \in 1..3 /\ fallbacks \in Nat
  /\ members \in Seq(STRING \cup {config.reranker}) /\ Len(members) <= 3

(* A leg that has not answered has found nothing. *)
LegsTruthful == \A l \in Legs : (leg[l] # "ok" => found[l] = <<>>) /\ (leg[l] = "ok" => l \in Asked)

(* Until it is reranked the list is the fused one, and nothing is counted. *)
Underway ==
  /\ rstage \in {"load", "health", "rerank"} =>
       IsInjective(ranked) /\ Range(ranked) \subseteq Pool /\ Len(ranked) = Keeps
  /\ rstage = "load" /\ retriever = "hybrid" =>
       ranked = Fuse(found["vector"], found["bm25"], config.fused)
  /\ rstage \in {"legs", "load", "health", "rerank"} => fallbacks = 0 /\ active = "prefix"
  /\ rstage \in {"health", "rerank"} => turn <= Len(members)

(* The inductive invariant. *)
RetrievalInv == RetrievalShape /\ LegsTruthful /\ Underway /\ DegradesGracefully

(* Overrides are merged into a valid configuration only where the result is one. *)
LEMMA ConfigKept ==
  ASSUME NEW env \in Configs, NEW keyed \in BOOLEAN, NEW o \in Overrides
  PROVE  LET c == ApplyOverrides(FromEnv(env, keyed), o) IN Typed(c) /\ ValidConfig(c)
<1>1. env \in RetrieverConfigs /\ ValidConfig(env)
  BY RetrievalAssumption
<1>2. PICK c : c = FromEnv(env, keyed)
  OBVIOUS
<1>3. c = [strategy |-> env.strategy, topK |-> env.topK, perLeg |-> env.perLeg, fused |-> env.fused,
           vectorWeight |-> env.vectorWeight, bm25Weight |-> env.bm25Weight, enabled |-> env.enabled,
           reranker |-> IF env.reranker = "cohere" /\ ~keyed THEN "bge" ELSE env.reranker,
           chain |-> env.chain]
  BY <1>1, <1>2 DEF FromEnv, RetrieverConfigs
<1>4. PICK strategy, reranker, topK :
        /\ strategy = (IF o.strategy \subseteq Strategies /\ o.strategy # {} THEN CHOOSE s \in o.strategy : TRUE ELSE c.strategy)
        /\ reranker = (IF o.reranker \in {{}, {""}} THEN c.reranker ELSE CHOOSE r \in o.reranker : TRUE)
        /\ topK = (IF \E k \in o.topK : k > 0 THEN CHOOSE k \in o.topK : TRUE ELSE c.topK)
  OBVIOUS
<1>5. /\ o.strategy = {} \/ o.strategy = {"bm25"} \/ o.strategy = {"?"}
      /\ o.topK = {1} \/ ~ \E k \in o.topK : k > 0
  <2>1. o.strategy \in Optional({"bm25", "?"}) /\ o.topK \in Optional({-1, 0, 1})
    BY DEF Overrides
  <2>2. o.topK = {} \/ \E x \in {-1, 0, 1} : o.topK = {x}
    BY <2>1 DEF Optional
  <2>3. o.topK = {1} \/ ~ \E k \in o.topK : k > 0
    BY <2>2
  <2> QED BY <2>1, <2>3 DEF Optional
<1>6. strategy \in Strategies
  BY <1>1, <1>3, <1>4, <1>5 DEF Strategies, RetrieverConfigs
<1>7. topK \in Int /\ topK > 0
  <2>1. CASE o.topK = {1}
    <3>1. \E k \in o.topK : k > 0
      BY <2>1
    <3>2. topK = CHOOSE k \in o.topK : TRUE
      BY <1>4, <3>1, Zenon
    <3>3. topK \in o.topK
      BY <2>1, <3>2
    <3> QED BY <2>1, <3>3
  <2>2. CASE ~ \E k \in o.topK : k > 0
    BY <1>1, <1>3, <1>4, <2>2 DEF RetrieverConfigs, ValidConfig
  <2> QED BY <1>5, <2>1, <2>2
<1>8. PICK d : d = ApplyOverrides(c, o)
  OBVIOUS
<1>9. d = [strategy |-> strategy, topK |-> topK, perLeg |-> env.perLeg, fused |-> env.fused,
           vectorWeight |-> env.vectorWeight, bm25Weight |-> env.bm25Weight, enabled |-> env.enabled,
           reranker |-> reranker, chain |-> env.chain]
  BY <1>3, <1>4, <1>8 DEF ApplyOverrides
<1>10. /\ d.strategy = strategy /\ d.topK = topK
       /\ d.perLeg = env.perLeg /\ d.fused = env.fused /\ d.vectorWeight = env.vectorWeight
       /\ d.bm25Weight = env.bm25Weight /\ d.chain = env.chain /\ d.enabled = env.enabled
  BY <1>9
<1>11. ValidConfig(d)
  BY <1>1, <1>6, <1>7, <1>10 DEF ValidConfig
<1>12. Typed(d)
  BY <1>1, <1>7, <1>10 DEF Typed, RetrieverConfigs
<1> QED BY <1>2, <1>8, <1>11, <1>12

(* A leg may find nothing. *)
LEMMA EmptyRanking ==
  ASSUME NEW n \in Int, n > 0
  PROVE  <<>> \in Rankings(n)
<1>1. <<>> \in [1..0 -> Ids] /\ 0 \in 0..n /\ IsInjective(<<>>)
  BY DEF IsInjective
<1> QED BY <1>1 DEF Rankings, BoundedSeq, SeqOf

(* No leg has answered yet. *)
LEMMA RetrievalInitInv == RetrievalInit => RetrievalInv
<1> SUFFICES ASSUME RetrievalInit PROVE RetrievalInv
  OBVIOUS
<1>1. Typed(config) /\ ValidConfig(config)
  BY ConfigKept DEF RetrievalInit
<1>2. config.perLeg \in Int /\ config.perLeg > 0
  BY <1>1 DEF Typed, ValidConfig
<1>3. retriever \in {"hybrid", "bm25", "vector", "empty"}
  BY DEF RetrievalInit, BuildRetriever
<1>4. found \in [Legs -> Rankings(config.perLeg)]
  BY <1>2, EmptyRanking DEF RetrievalInit
<1>5. RetrievalShape
  BY <1>1, <1>3, <1>4, <<>> \in Seq(Ids), <<>> \in Seq(STRING \cup {config.reranker}), Len(<<>>) = 0 DEF RetrievalInit, RetrievalShape
<1> QED BY <1>5 DEF RetrievalInit, RetrievalInv, LegsTruthful, Underway, DegradesGracefully

(* Only the two legs are asked. *)
LEMMA AskedLegs == RetrievalShape => Asked \subseteq Legs
BY DEF RetrievalShape, Asked, Legs

(* A leg answers or fails. *)
LEMMA LegEndsInv == ASSUME RetrievalInv, NEW l \in Legs, LegEnds(l) PROVE RetrievalInv'
<1>1. UNCHANGED <<config, retriever, pooled, rstage, members, turn, ranked, active, fallbacks>>
      /\ rstage = "legs" /\ l \in Asked
  BY DEF LegEnds
<1>2. /\ found' \in [Legs -> Rankings(config.perLeg)] /\ leg' \in [Legs -> {"pending", "ok", "failed"}]
      /\ \A k \in Legs : (leg'[k] # "ok" => found'[k] = <<>>) /\ (leg'[k] = "ok" => k \in Asked)
  <2>1. CASE \E s \in Rankings(config.perLeg) : found' = [found EXCEPT ![l] = s] /\ leg' = [leg EXCEPT ![l] = "ok"]
    BY <1>1, <2>1 DEF RetrievalInv, RetrievalShape, LegsTruthful
  <2>2. CASE leg' = [leg EXCEPT ![l] = "failed"] /\ UNCHANGED found /\ leg[l] = "pending"
    BY <1>1, <2>2 DEF RetrievalInv, RetrievalShape, LegsTruthful
  <2> QED BY <2>1, <2>2 DEF LegEnds
<1>3. RetrievalShape'
  BY <1>1, <1>2 DEF RetrievalInv, RetrievalShape
<1>4. LegsTruthful'
  BY <1>1, <1>2 DEF LegsTruthful, Asked
<1>5. Underway' /\ DegradesGracefully'
  BY <1>1 DEF RetrievalInv, Underway, DegradesGracefully
<1> QED BY <1>3, <1>4, <1>5 DEF RetrievalInv

(* The query raises before either leg is asked. *)
LEMMA RaisesAtOnceInv == RetrievalInv /\ LegRaisesAtOnce => RetrievalInv'
<1> SUFFICES ASSUME RetrievalInv, LegRaisesAtOnce PROVE RetrievalInv'
  OBVIOUS
<1>1. UNCHANGED <<config, retriever, pooled, leg, found, members, turn, ranked, active, fallbacks>>
      /\ rstage' = "raised" /\ \A l \in Legs : leg[l] = "pending"
  BY DEF LegRaisesAtOnce
<1>2. RetrievalShape' /\ LegsTruthful' /\ Underway'
  BY <1>1 DEF RetrievalInv, RetrievalShape, LegsTruthful, Underway, Asked
<1>3. \A l \in Asked' : leg'[l] # "ok"
  BY <1>1, AskedLegs DEF RetrievalInv, Asked
<1> QED BY <1>1, <1>2, <1>3 DEF RetrievalInv, DegradesGracefully

(* The list that a single retriever hands on is what its leg has found. *)
LEMMA SingleLeg ==
  ASSUME RetrievalShape, LegsTruthful, retriever # "hybrid",
         NEW s, s = found["vector"] \o found["bm25"]
  PROVE  s \in Seq(Ids) /\ IsInjective(s) /\ Range(s) = Pool /\ Len(s) = Cardinality(Pool)
<1>1. PICK v, b : v = found["vector"] /\ b = found["bm25"]
  OBVIOUS
<1>2. v \in Rankings(config.perLeg) /\ b \in Rankings(config.perLeg) /\ config.perLeg \in Int
  BY <1>1 DEF RetrievalShape, Legs, Typed
<1>3. v = <<>> \/ b = <<>>
  BY <1>1 DEF RetrievalShape, LegsTruthful, Legs, Asked
<1>4. Pool = Range(v) \cup Range(b)
  BY <1>1 DEF Pool, Legs
<1>5. Range(<<>>) = {}
  BY DEF Range
<1>6. PICK r \in Rankings(config.perLeg) : s = r /\ Pool = Range(r)
  <2>1. v \in Seq(Ids) /\ b \in Seq(Ids)
    BY <1>2, RankingFacts
  <2>2. CASE v = <<>>
    BY <1>1, <1>2, <1>4, <1>5, <2>1, <2>2
  <2>3. CASE b = <<>>
    BY <1>1, <1>2, <1>4, <1>5, <2>1, <2>3
  <2> QED BY <1>3, <2>2, <2>3
<1> QED BY <1>2, <1>6, RankingFacts

(* The legs are joined: both fused, or the one that answered. *)
LEMMA JoinInv == RetrievalInv /\ Join => RetrievalInv'
<1> SUFFICES ASSUME RetrievalInv, Join PROVE RetrievalInv'
  OBVIOUS
<1>1. UNCHANGED <<config, retriever, pooled, leg, found, members, turn, active, fallbacks>> /\ rstage = "legs"
  BY DEF Join
<1>2. RetrievalShape /\ LegsTruthful /\ fallbacks = 0 /\ active = "prefix"
  BY <1>1 DEF RetrievalInv, Underway
<1>3. LegsTruthful' /\ Pool' = Pool /\ Keeps' = Keeps
  BY <1>1, <1>2 DEF LegsTruthful, Asked, Pool, Keeps
<1>4. CASE rstage' = "raised" /\ UNCHANGED ranked /\ \A l \in Asked : leg[l] = "failed"
  <2>1. RetrievalShape' /\ Underway'
    BY <1>1, <1>2, <1>4 DEF RetrievalShape, Underway
  <2>2. DegradesGracefully'
    BY <1>1, <1>4 DEF DegradesGracefully, Asked
  <2> QED BY <1>3, <2>1, <2>2 DEF RetrievalInv
<1>5. CASE rstage' = "load" /\ ranked' = IF retriever = "hybrid" THEN Fuse(found["vector"], found["bm25"], config.fused)
                                         ELSE found["vector"] \o found["bm25"]
  <2>1. ranked' \in Seq(Ids) /\ IsInjective(ranked') /\ Range(ranked') \subseteq Pool /\ Len(ranked') = Keeps
    <3>1. CASE retriever = "hybrid"
      <4>1. /\ found["vector"] \in Rankings(config.perLeg) /\ found["bm25"] \in Rankings(config.perLeg)
            /\ config.perLeg \in Int /\ config.fused \in Nat
        BY <1>2 DEF RetrievalShape, Legs, Typed, ValidConfig
      <4>3. Weighted
        <5>1. config.vectorWeight \in 1..99 /\ config.bm25Weight = 100 - config.vectorWeight
          BY <1>2 DEF RetrievalShape, ValidConfig
        <5>2. PICK w \in 1..99 : w = config.vectorWeight
          BY <5>1
        <5>3. w \in Nat /\ 100 - w \in Nat
          OBVIOUS
        <5> QED BY <5>1, <5>2, <5>3 DEF Weighted
      <4>2. Ids2(found["vector"], found["bm25"]) = Pool
        BY DEF Ids2, Pool, Legs
      <4> QED BY <1>5, <3>1, <4>1, <4>2, <4>3, FusedFacts DEF Keeps
    <3>2. CASE retriever # "hybrid"
      BY <1>2, <1>5, <3>2, SingleLeg DEF Keeps
    <3> QED BY <3>1, <3>2
  <2>2. RetrievalShape'
    BY <1>1, <1>2, <1>5, <2>1 DEF RetrievalShape
  <2>3. Underway'
    <3>1. Fuse(found["vector"], found["bm25"], config.fused)' = Fuse(found["vector"], found["bm25"], config.fused)
      BY <1>1 DEF Fuse, Before, Rrf
    <3>2. retriever' = "hybrid" => ranked' = Fuse(found["vector"], found["bm25"], config.fused)'
      BY <1>1, <1>5, <3>1
    <3>3. IsInjective(ranked') /\ Range(ranked') \subseteq Pool' /\ Len(ranked') = Keeps'
      BY <1>3, <2>1
    <3> QED BY <1>1, <1>2, <1>5, <3>2, <3>3 DEF Underway
  <2>4. DegradesGracefully'
    BY <1>5 DEF DegradesGracefully
  <2> QED BY <1>3, <2>2, <2>3, <2>4 DEF RetrievalInv
<1> QED BY <1>4, <1>5 DEF Join

(* The end of a retrieval with the documents that were kept of the fused list. *)
LEMMA KeptFacts ==
  ASSUME RetrievalInv, rstage \in {"load", "health", "rerank"}
  PROVE  /\ Kept \in Seq(Ids) /\ IsInjective(Kept) /\ Range(Kept) \subseteq Range(ranked)
         /\ Len(Kept) = Lesser(config.topK, Len(ranked))
<1>1. ranked \in Seq(Ids) /\ IsInjective(ranked) /\ config.topK \in Nat
  BY DEF RetrievalInv, RetrievalShape, Underway, Typed, ValidConfig
<1> QED BY <1>1, PrefixFacts DEF Kept

(* A retrieval that ends with top_k distinct documents of its pool, and counts one
   fallback unless the reranker it asked for served them, has degraded gracefully. *)
LEMMA EndsServing ==
  ASSUME RetrievalInv, rstage \in {"load", "health", "rerank"}, rstage' = "done",
         ranked' \in Seq(Ids), IsInjective(ranked'), Range(ranked') \subseteq Range(ranked),
         Len(ranked') = Lesser(config.topK, Len(ranked)),
         turn' \in 1..3, members' \in Seq(STRING \cup {config.reranker}), Len(members') <= 3,
         fallbacks' = IF active' = "prefix" \/ (active' = "reranker" /\ turn' = 1) THEN 0 ELSE 1,
         UNCHANGED <<config, retriever, pooled, leg, found>>
  PROVE  RetrievalInv'
<1>1. RetrievalShape /\ LegsTruthful /\ Range(ranked) \subseteq Pool /\ Len(ranked) = Keeps
  BY DEF RetrievalInv, Underway
<1>2. LegsTruthful' /\ Pool' = Pool /\ Keeps' = Keeps
  BY <1>1 DEF LegsTruthful, Asked, Pool, Keeps
<1>3. RetrievalShape'
  BY <1>1 DEF RetrievalShape
<1>4. Underway'
  BY DEF Underway
<1>5. DegradesGracefully'
  <2>1. Range(ranked') \subseteq Pool' /\ Len(ranked') = Lesser(config'.topK, Keeps')
    BY <1>1, <1>2
  <2> QED BY <2>1 DEF DegradesGracefully, Pool, Keeps
<1> QED BY <1>2, <1>3, <1>4, <1>5 DEF RetrievalInv

(* The identity reranker passes the first top_k on. *)
LEMMA IdentityInv ==
  ASSUME RetrievalInv, rstage \in {"load", "health", "rerank"}, Identity,
         UNCHANGED <<config, retriever, pooled, leg, found>>
  PROVE  RetrievalInv'
<1>1. fallbacks' = 1 /\ active' = "fallback" /\ rstage' = "done" /\ ranked' = Kept /\ UNCHANGED <<members, turn>>
  BY DEF Identity, CountFallback, RetrievalInv, Underway
<1>2. turn \in 1..3 /\ members \in Seq(STRING \cup {config.reranker}) /\ Len(members) <= 3
  BY DEF RetrievalInv, RetrievalShape
<1> QED BY <1>1, <1>2, KeptFacts, EndsServing

(* The next reranker of the chain is tried, or else the identity. *)
LEMMA NextMemberInv ==
  ASSUME RetrievalInv, rstage \in {"health", "rerank"}, NextMember,
         UNCHANGED <<config, retriever, pooled, leg, found>>
  PROVE  RetrievalInv'
<1>1. CASE turn < Len(members) /\ turn' = turn + 1 /\ UNCHANGED <<rstage, members, ranked, active, fallbacks>>
  BY <1>1 DEF RetrievalInv, RetrievalShape, LegsTruthful, Underway, DegradesGracefully, Asked, Pool, Keeps
<1>2. CASE Identity
  BY <1>2, IdentityInv
<1> QED BY <1>1, <1>2 DEF NextMember

(* Loading the rerankers (pipeline.py). *)
LEMMA LoadInv == RetrievalInv /\ LoadRerankers => RetrievalInv'
<1> SUFFICES ASSUME RetrievalInv, LoadRerankers PROVE RetrievalInv'
  OBVIOUS
<1>1. UNCHANGED <<config, retriever, pooled, leg, found>> /\ rstage = "load"
  BY DEF LoadRerankers
<1>2. RetrievalShape /\ LegsTruthful /\ fallbacks = 0 /\ active = "prefix"
  BY <1>1 DEF RetrievalInv, Underway
<1>3. CASE rstage' = "done" /\ ranked' = Kept /\ UNCHANGED <<members, turn, active, fallbacks>>
  <2>1. turn \in 1..3 /\ members \in Seq(STRING \cup {config.reranker}) /\ Len(members) <= 3
    BY <1>2 DEF RetrievalShape
  <2> QED BY <1>1, <1>2, <1>3, <2>1, KeptFacts, EndsServing
<1>4. ASSUME NEW usable \in Loaded,
             IF usable = <<>> THEN Identity
             ELSE /\ members' = usable /\ rstage' = "health" /\ turn' = 1
                  /\ UNCHANGED <<ranked, active, fallbacks>>
      PROVE  RetrievalInv'
  <2>1. CASE usable = <<>>
    BY <1>1, <1>4, <2>1, IdentityInv
  <2>2. CASE usable # <<>>
    <3>1. Named \in Seq(STRING \cup {config.reranker}) /\ Len(Named) <= 3
      <4>1. config.chain \in Seq(STRING) /\ Len(config.chain) <= 3
        BY <1>2 DEF RetrievalShape, Typed, ValidConfig
      <4>2. PICK c, T : c = config.chain /\ T = STRING \cup {config.reranker}
        OBVIOUS
      <4>3. c \in Seq(T) /\ <<config.reranker>> \in Seq(T) /\ Len(<<config.reranker>>) = 1
        <5>1. PICK m \in Nat : c \in [1..m -> STRING]
          BY <4>1, <4>2
        <5>2. c \in [1..m -> T]
          BY <4>2, <5>1
        <5> QED BY <4>2, <5>2
      <4>4. Named = c \/ Named = <<config.reranker>>
        BY <4>2 DEF Named
      <4>5. Len(c) <= 3
        BY <4>1, <4>2
      <4>6. Named \in Seq(T) /\ Len(Named) <= 3
        <5>1. PICK N, one : N = Named /\ one = <<config.reranker>>
          OBVIOUS
        <5>2. one \in Seq(T) /\ Len(one) <= 3
          BY <4>3, <5>1
        <5>3. N = c \/ N = one
          BY <4>4, <5>1
        <5>4. N \in Seq(T) /\ Len(N) <= 3
          BY <4>3, <4>5, <5>2, <5>3
        <5> QED BY <5>1, <5>4
      <4> QED BY <4>2, <4>6
    <3>2. PICK some : usable = SelectAt(Named, {i \in DOMAIN Named : Named[i] \in some})
      BY <1>4 DEF Loaded
    <3>3. PICK I \in SUBSET DOMAIN Named : usable = SelectAt(Named, I)
      BY <3>2
    <3>4. /\ usable \in Seq(STRING \cup {config.reranker})
          /\ \E at \in [1..Len(usable) -> I] :
               \A k, l \in 1..Len(usable) : k < l => at[k] < at[l]
      BY <3>1, <3>3, Selected
    <3>5. Len(usable) <= 3
      <4>1. PICK at \in [1..Len(usable) -> I] : \A k, l \in 1..Len(usable) : k < l => at[k] < at[l]
        BY <3>4
      <4>0. PICK n \in Nat : n = Len(Named) /\ n <= 3 /\ DOMAIN Named = 1..n
        BY <3>1
      <4>2. PICK u \in Nat : u = Len(usable)
        BY <3>4
      <4>3. \A k \in 1..u : at[k] \in 1..n
        BY <4>0, <4>1, <4>2
      <4>4. ASSUME 4 <= u PROVE FALSE
        <5>1. 1 \in 1..u /\ 2 \in 1..u /\ 3 \in 1..u /\ 4 \in 1..u
          BY <4>4
        <5>2. at[1] < at[2] /\ at[2] < at[3] /\ at[3] < at[4]
          BY <4>1, <4>2, <5>1
        <5>3. PICK a, b, c, d : a = at[1] /\ b = at[2] /\ c = at[3] /\ d = at[4]
          OBVIOUS
        <5>4. a \in 1..n /\ b \in 1..n /\ c \in 1..n /\ d \in 1..n
          BY <4>3, <5>1, <5>3
        <5> QED BY <4>0, <5>2, <5>3, <5>4
      <4> QED BY <4>2, <4>4
    <3>6. Len(usable) >= 1
      BY <2>2, <3>4
    <3> QED BY <1>1, <1>2, <1>4, <2>2, <3>4, <3>5, <3>6
            DEF RetrievalInv, RetrievalShape, LegsTruthful, Underway, DegradesGracefully, Asked, Pool, Keeps
  <2> QED BY <2>1, <2>2
<1> QED BY <1>3, <1>4 DEF LoadRerankers

(* The health check of a reranker, and its timeout. *)
LEMMA HealthInv == RetrievalInv /\ HealthCheck => RetrievalInv'
<1> SUFFICES ASSUME RetrievalInv, HealthCheck PROVE RetrievalInv'
  OBVIOUS
<1>1. UNCHANGED <<config, retriever, pooled, leg, found>> /\ rstage = "health"
  BY DEF HealthCheck
<1>2. CASE rstage' = "rerank" /\ turn' = 1 /\ UNCHANGED <<members, ranked, active, fallbacks>>
  BY <1>1, <1>2 DEF RetrievalInv, RetrievalShape, LegsTruthful, Underway, DegradesGracefully, Asked, Pool, Keeps
<1>3. CASE NextMember
  BY <1>1, <1>3, NextMemberInv
<1>4. CASE Identity
  BY <1>1, <1>4, IdentityInv
<1> QED BY <1>2, <1>3, <1>4 DEF HealthCheck

(* A reranker returns what it was given in some order, or raises. *)
LEMMA RerankInv == RetrievalInv /\ Rerank => RetrievalInv'
<1> SUFFICES ASSUME RetrievalInv, Rerank PROVE RetrievalInv'
  OBVIOUS
<1>1. UNCHANGED <<config, retriever, pooled, leg, found>> /\ rstage = "rerank"
  BY DEF Rerank
<1>2. RetrievalShape /\ fallbacks = 0
  BY <1>1 DEF RetrievalInv, Underway
<1>3. CASE NextMember
  BY <1>1, <1>3, NextMemberInv
<1>4. ASSUME NEW s \in Answers(members[turn]), ranked' = s, rstage' = "done", active' = "reranker",
             fallbacks' = IF turn > 1 THEN fallbacks + 1 ELSE fallbacks, UNCHANGED <<members, turn>>
      PROVE  RetrievalInv'
  <2>1. config.topK \in Int /\ turn \in 1..3 /\ members \in Seq(STRING \cup {config.reranker}) /\ Len(members) <= 3
    BY <1>2 DEF RetrievalShape, Typed
  <2>2. s \in Seq(Ids) /\ IsInjective(s) /\ Range(s) \subseteq Range(ranked)
        /\ Len(s) = Lesser(config.topK, Len(ranked))
    <3>1. CASE s = Kept
      BY <1>1, <3>1, KeptFacts
    <3>2. CASE s \in Rankings(config.topK) /\ Range(s) \subseteq Range(ranked)
               /\ Len(s) = Lesser(config.topK, Len(ranked))
      BY <2>1, <3>2, RankingFacts
    <3> QED BY <3>1, <3>2 DEF Answers
  <2>3. fallbacks' = IF active' = "prefix" \/ (active' = "reranker" /\ turn' = 1) THEN 0 ELSE 1
    BY <1>2, <1>4, <2>1
  <2> QED BY <1>1, <1>4, <2>1, <2>2, <2>3, EndsServing
<1> QED BY <1>3, <1>4 DEF Rerank

(* So every step keeps it. *)
LEMMA RetrievalNextInv == RetrievalInv /\ [RetrievalNext]_retrievalVars => RetrievalInv'
<1>1. CASE UNCHANGED retrievalVars
  <2> SUFFICES ASSUME RetrievalInv PROVE RetrievalInv'
    OBVIOUS
  <2>1. Fuse(found["vector"], found["bm25"], config.fused)' = Fuse(found["vector"], found["bm25"], config.fused)
    BY <1>1 DEF retrievalVars, Fuse, Before, Rrf
  <2>2. Underway'
    BY <1>1, <2>1 DEF retrievalVars, RetrievalInv, Underway, Pool, Keeps
  <2> QED BY <1>1, <2>2 DEF retrievalVars, RetrievalInv, RetrievalShape, LegsTruthful, DegradesGracefully, Asked
<1> QED BY <1>1, LegEndsInv, RaisesAtOnceInv, JoinInv, LoadInv, HealthInv, RerankInv DEF RetrievalNext

(* The state of a fused list tells how its documents were placed. *)
LEMMA FusedDominates == RetrievalInv => FusionRespectsDominance
<1> SUFFICES ASSUME RetrievalInv, rstage = "load", retriever = "hybrid" PROVE FusionRespectsDominance
  BY DEF FusionRespectsDominance
<1>1. PICK v, b : v = found["vector"] /\ b = found["bm25"]
  OBVIOUS
<1>2. v \in Rankings(config.perLeg) /\ b \in Rankings(config.perLeg) /\ config.perLeg \in Int
      /\ config.fused \in Nat
  BY <1>1 DEF RetrievalInv, RetrievalShape, Legs, Typed, ValidConfig
<1>3. Weighted
  <2>1. config.vectorWeight \in 1..99 /\ config.bm25Weight = 100 - config.vectorWeight
    BY DEF RetrievalInv, RetrievalShape, ValidConfig
  <2>2. PICK w \in 1..99 : w = config.vectorWeight
    BY <2>1
  <2>3. w \in Nat /\ 100 - w \in Nat
    OBVIOUS
  <2> QED BY <2>1, <2>2, <2>3 DEF Weighted
<1>4. ranked = Fuse(v, b, config.fused)
  BY <1>1 DEF RetrievalInv, Underway
<1>5. ASSUME NEW x \in Ids, NEW y \in Range(ranked),
             \A l \in Legs : Place(found[l], x) <= Place(found[l], y),
             \E l \in Legs : Place(found[l], x) < Place(found[l], y)
      PROVE  x \in Range(ranked) /\ Rank(ranked, x) < Rank(ranked, y)
  <2>1. y \in Ids2(v, b)
    BY <1>2, <1>3, <1>4, FusedFacts
  <2>2. /\ Place(v, x) <= Place(v, y) /\ Place(b, x) <= Place(b, y)
        /\ Place(v, x) < Place(v, y) \/ Place(b, x) < Place(b, y)
    BY <1>1, <1>5 DEF Legs
  <2>3. x \in Ids2(v, b) /\ Before(v, b, x, y)
    BY <1>2, <1>3, <2>1, <2>2, DominanceFirst
  <2> QED BY <1>2, <1>3, <1>4, <2>3, FusedFacts
<1> QED BY <1>5 DEF FusionRespectsDominance, Place

(* Type correctness of a retrieval. *)
THEOREM RetrievalTyped == RetrievalSpec => []RetrievalTypeOK
<1>1. RetrievalInv => RetrievalTypeOK
  BY DEF RetrievalInv, RetrievalShape, RetrievalTypeOK, Range
<1> QED BY <1>1, RetrievalInitInv, RetrievalNextInv, PTL DEF RetrievalSpec

(* Whatever fails, order is lost and never a document. *)
THEOREM Degrades == RetrievalSpec => []DegradesGracefully
<1>1. RetrievalInv => DegradesGracefully
  BY DEF RetrievalInv
<1> QED BY <1>1, RetrievalInitInv, RetrievalNextInv, PTL DEF RetrievalSpec

(* Fusion keeps the order that both legs agree on. *)
THEOREM DominanceKept == RetrievalSpec => []FusionRespectsDominance
BY FusedDominates, RetrievalInitInv, RetrievalNextInv, PTL DEF RetrievalSpec

-----------------------------------------------------------------------------
(* The screen: the events of a stream (StreamEvents).                      *)

(* A non-empty set of positions has a greatest, and Max is it. *)
LEMMA GreatestIndex ==
  ASSUME NEW n \in Nat, NEW S \in SUBSET (1..n), S # {}
  PROVE  Max(S) \in S
<1> DEFINE D == {d \in Nat : n - d \in S}
<1>1. PICK s \in S : TRUE
  OBVIOUS
<1>2. s \in 1..n /\ n - s \in Nat /\ n - (n - s) = s
  OBVIOUS
<1>3. D \in SUBSET Nat /\ n - s \in D
  BY <1>1, <1>2
<1>4. PICK d : d = Min(D)
  OBVIOUS
<1>5. d \in D /\ \A j \in D : d <= j
  <2> HIDE DEF D
  <2> QED BY <1>3, <1>4, LeastNat
<1>6. d \in Nat /\ n - d \in S
  BY <1>5
<1>7. ASSUME NEW j \in S PROVE n - d >= j
  <2>1. j \in 1..n /\ n - j \in Nat /\ n - (n - j) = j
    OBVIOUS
  <2>2. n - j \in D
    BY <2>1
  <2>3. d <= n - j
    BY <1>5, <2>2
  <2> QED BY <2>1, <2>3, <1>6
<1>8. \E x \in S : \A y \in S : x >= y
  BY <1>6, <1>7
<1> QED BY <1>8 DEF Max

(* What a concatenation is made of, and that it lacks nothing. *)
Joins(w, s, r) ==
  /\ \A k \in DOMAIN w : (\E i \in DOMAIN s : w[k] = s[i]) \/ (\E i \in DOMAIN r : w[k] = r[i])
  /\ \A i \in DOMAIN s : \E k \in DOMAIN w : w[k] = s[i]
  /\ \A i \in DOMAIN r : \E k \in DOMAIN w : w[k] = r[i]

(* Two lists of events, one after the other. *)
LEMMA Concatenated ==
  ASSUME NEW S, NEW s \in Seq(S), NEW r \in Seq(S)
  PROVE  s \o r \in Seq(S) /\ Joins(s \o r, s, r)
<1>0. PICK w : w = s \o r
  OBVIOUS
<1>1. PICK m \in Nat, n \in Nat : m = Len(s) /\ n = Len(r)
  OBVIOUS
<1>3. /\ w \in Seq(S) /\ DOMAIN s = 1..m /\ DOMAIN r = 1..n /\ DOMAIN w = 1..(m + n)
      /\ \A k \in 1..(m + n) : w[k] = IF k <= m THEN s[k] ELSE r[k - m]
  BY <1>0, <1>1
<1>4. ASSUME NEW k \in DOMAIN w PROVE (\E i \in DOMAIN s : w[k] = s[i]) \/ (\E i \in DOMAIN r : w[k] = r[i])
  <2>1. CASE k <= m
    BY <1>3, <2>1
  <2>2. CASE ~ (k <= m)
    <3>1. k - m \in 1..n /\ w[k] = r[k - m]
      BY <1>3, <2>2
    <3> QED BY <1>3, <3>1
  <2> QED BY <2>1, <2>2
<1>5. ASSUME NEW i \in DOMAIN s PROVE \E k \in DOMAIN w : w[k] = s[i]
  <2>1. i \in 1..(m + n) /\ i <= m
    BY <1>3
  <2> QED BY <1>3, <2>1
<1>6. ASSUME NEW i \in DOMAIN r PROVE \E k \in DOMAIN w : w[k] = r[i]
  <2>1. i + m \in 1..(m + n) /\ ~ (i + m <= m) /\ (i + m) - m = i
    BY <1>3
  <2>2. w[i + m] = r[i]
    BY <1>3, <2>1
  <2> QED BY <1>3, <2>1, <2>2
<1> QED BY <1>0, <1>3, <1>4, <1>5, <1>6 DEF Joins

-----------------------------------------------------------------------------
(* What a stream of the question q may say when the models' calls are C. *)
Identities == STRING \cup {RetrieverCall}
(* The calls of a model's message. *)
Callings == [id : STRING, tool : STRING, question : QueryTexts]
(* Those with an id of their own. *)
Identified(C) == {c \in C : c.id # ""}

(* Under the id there is the question `of`: of a call, or the retriever's. *)
AskedUnder(C, q, id, of) ==
  \/ id = RetrieverCall /\ of = q
  \/ \E c \in Identified(C) : c.id = id /\ c.question = of

(* What was retrieved for `of` belongs under the id. *)
Belongs(C, q, id, of) == \E question : AskedUnder(C, q, id, question) /\ NormOf[question] = NormOf[of]

(* The events that announce a call, and those that show documents. *)
Announcements(C, q) ==
  {ev \in [type : {"tool_call"}, id : Identities, tool : STRING \cup {"rag_query"}, question : QueryTexts] :
     ev.id # "" /\ AskedUnder(C, q, ev.id, ev.question)}
Retrievals(C, q) ==
  {ev \in [type : {"retrieved_docs"}, id : Identities, of : QueryTexts, some : BOOLEAN] :
     Belongs(C, q, ev.id, ev.of)}
AnyShape == {"list", "error", "chunks", "no chunks", "artifact"}
ResultEvents == [type : {"tool_result"}, id : Identities, preview : AnyShape, full : BOOLEAN]
              \cup [type : {"artifact_ready"}, id : Identities] \cup {Token}
(* All that a stream of a turn may tell. *)
Heard(C, q) == Announcements(C, q) \cup Retrievals(C, q) \cup ResultEvents

(* The ids announced in a list of events, and what a list does not tell. *)
TellingIds(w) == {w[i].id : i \in {k \in DOMAIN w : w[k].type = "tool_call"}}
Silent(w, type) == \A i \in DOMAIN w : w[i].type # type

(* What the server remembers of a turn's calls. *)
EmitterOf(C, e) ==
  /\ e = [question |-> e.question, queries |-> e.queries, emitted |-> e.emitted, synthetic |-> e.synthetic]
  /\ e.question \in QueryTexts
  /\ e.queries \in Seq(Identified(C)) /\ e.synthetic \in BOOLEAN

QueryIds(e) == {e.queries[i].id : i \in DOMAIN e.queries}

(* A message of the model is heard as announcements of its calls and as its text
   (_emit_ai_message): every query it announces is remembered under its id. *)
LEMMA AiIsHeard ==
  ASSUME NEW C \in SUBSET Callings, NEW e, EmitterOf(C, e), NEW msg,
         msg.calls \in Seq(C)
  PROVE  LET out == EmitAi(e, msg) IN
         /\ EmitterOf(C, out.emitter)
         /\ out.emitter.question = e.question /\ out.emitter.synthetic = e.synthetic
         /\ out.events \in Seq(Heard(C, e.question))
         /\ Silent(out.events, "retrieved_docs")
         /\ QueryIds(out.emitter) \subseteq QueryIds(e) \cup TellingIds(out.events)
<1>a. PICK calls : calls = msg.calls
  OBVIOUS
<1>b. PICK named \in SUBSET DOMAIN calls : named = {i \in DOMAIN calls : calls[i].id # ""}
  OBVIOUS
<1>c. PICK asked \in SUBSET DOMAIN calls : asked = {i \in named : calls[i].tool = "rag_query"}
  BY <1>b
<1>d. calls \in Seq(C)
  BY <1>a
<1>e. \A i \in DOMAIN calls : calls[i] \in C
  BY <1>d
<1>1. PICK announced : announced = SelectAt(calls, named)
  OBVIOUS
<1>2. PICK queried : queried = SelectAt(calls, asked)
  OBVIOUS
<1>3. PICK token : token = IF msg.text THEN <<Token>> ELSE <<>>
  OBVIOUS
<1>4. PICK told : told = [i \in DOMAIN announced |-> ToolCallEvent(announced[i])]
  OBVIOUS
<1>5. PICK out : out = EmitAi(e, msg)
  OBVIOUS
<1>6. out = [emitter |-> [e EXCEPT !.queries = @ \o queried], events |-> token \o told]
  BY <1>a, <1>b, <1>c, <1>1, <1>2, <1>3, <1>4, <1>5 DEF EmitAi
<1>7. /\ announced \in Seq(C)
      /\ \E at \in [1..Len(announced) -> named] :
           /\ \A k \in 1..Len(announced) : announced[k] = calls[at[k]]
           /\ \A i \in named : \E k \in 1..Len(announced) : at[k] = i
  <2>1. calls \in Seq(C)
    BY <1>a
  <2>2. SelectAt(calls, named) \in Seq(C)
         /\ \E at \in [1..Len(SelectAt(calls, named)) -> named] :
              /\ \A k \in 1..Len(SelectAt(calls, named)) : SelectAt(calls, named)[k] = calls[at[k]]
              /\ \A k, l \in 1..Len(SelectAt(calls, named)) : k < l => at[k] < at[l]
              /\ \A i \in named : \E k \in 1..Len(SelectAt(calls, named)) : at[k] = i
    BY <2>1, Selected
  <2> QED BY <1>1, <2>2, Zenon
<1>8. /\ queried \in Seq(C)
      /\ \E at \in [1..Len(queried) -> asked] :
           \A k \in 1..Len(queried) : queried[k] = calls[at[k]]
  <2>1. calls \in Seq(C)
    BY <1>a
  <2> QED BY <1>2, <2>1, Selected
<1>9. queried \in Seq(Identified(C))
  <2>0. PICK at \in [1..Len(queried) -> asked] : \A k \in 1..Len(queried) : queried[k] = calls[at[k]]
    BY <1>8
  <2>1. ASSUME NEW k \in 1..Len(queried) PROVE queried[k] \in Identified(C)
    <3>1. PICK n \in asked : n = at[k]
      BY <2>0
    <3>a. n \in named
      BY <1>c
    <3>b. n \in DOMAIN calls /\ calls[n].id # ""
      BY <1>b, <3>a
    <3>2. n \in DOMAIN calls /\ calls[n].id # "" /\ calls[n] \in C
      BY <1>e, <3>b
    <3> QED BY <2>0, <3>1, <3>2 DEF Identified
  <2>2. PICK m \in Nat : DOMAIN queried = 1..m /\ m = Len(queried)
    BY <1>8
  <2> QED BY <2>1, <2>2, <1>8
<1>10. announced \in Seq(Identified(C))
  <2>0. PICK at \in [1..Len(announced) -> named] : \A k \in 1..Len(announced) : announced[k] = calls[at[k]]
    BY <1>7
  <2>1. ASSUME NEW k \in 1..Len(announced) PROVE announced[k] \in Identified(C)
    <3>1. PICK n \in named : n = at[k]
      BY <2>0
    <3>b. n \in DOMAIN calls /\ calls[n].id # ""
      BY <1>b
    <3>2. n \in DOMAIN calls /\ calls[n].id # "" /\ calls[n] \in C
      BY <1>e, <3>b
    <3> QED BY <2>0, <3>1, <3>2 DEF Identified
  <2>2. PICK m \in Nat : DOMAIN announced = 1..m /\ m = Len(announced)
    BY <1>7
  <2> QED BY <2>1, <2>2, <1>7
<1>11. told \in Seq(Announcements(C, e.question))
  <2>1. ASSUME NEW c \in Identified(C) PROVE ToolCallEvent(c) \in Announcements(C, e.question)
    BY <2>1 DEF ToolCallEvent, Announcements, Identified, AskedUnder, Callings, Identities
  <2>2. \A k \in DOMAIN announced : ToolCallEvent(announced[k]) \in Announcements(C, e.question)
    BY <2>1, <1>10
  <2>3. PICK m \in Nat : DOMAIN announced = 1..m
    BY <1>10
  <2> QED BY <1>4, <2>2, <2>3
<1>12. token \in Seq(Heard(C, e.question)) /\ Silent(token, "retrieved_docs")
  <2>1. Token \in Heard(C, e.question) /\ Token.type # "retrieved_docs"
    BY DEF Heard, ResultEvents, Token
  <2>2. <<>> \in Seq(Heard(C, e.question)) /\ <<Token>> \in Seq(Heard(C, e.question))
    BY <2>1
  <2>3. Silent(<<>>, "retrieved_docs")
    BY DEF Silent
  <2>4. Silent(<<Token>>, "retrieved_docs")
    BY <2>1 DEF Silent
  <2> QED BY <1>3, <2>2, <2>3, <2>4
<1>13. told \in Seq(Heard(C, e.question)) /\ Silent(told, "retrieved_docs")
  <2>1. \A k \in DOMAIN told : told[k] \in Announcements(C, e.question)
    BY <1>11
  <2>2. \A k \in DOMAIN told : told[k].type = "tool_call" /\ told[k] \in Heard(C, e.question)
    BY <2>1 DEF Announcements, Heard
  <2> QED BY <2>2, <1>11 DEF Silent
<1>14. /\ token \o told \in Seq(Heard(C, e.question))
       /\ Silent(token \o told, "retrieved_docs")
       /\ \A i \in DOMAIN told : \E j \in DOMAIN (token \o told) : (token \o told)[j] = told[i]
  <2>1. PICK w : w = token \o told
    OBVIOUS
  <2>2. /\ w \in Seq(Heard(C, e.question))
        /\ \A k \in DOMAIN w : (\E i \in DOMAIN token : w[k] = token[i]) \/ (\E i \in DOMAIN told : w[k] = told[i])
        /\ \A i \in DOMAIN told : \E j \in DOMAIN w : w[j] = told[i]
    <3>1. PICK H : H = Heard(C, e.question)
      OBVIOUS
    <3>2. token \in Seq(H) /\ told \in Seq(H)
      BY <1>12, <1>13, <3>1
    <3>3. token \o told \in Seq(H) /\ Joins(token \o told, token, told)
      BY <3>2, Concatenated
    <3>4. w \in Seq(H) /\ Joins(w, token, told)
      BY <2>1, <3>3
    <3> QED BY <3>1, <3>4 DEF Joins
  <2>3. Silent(w, "retrieved_docs")
    BY <2>2, <1>12, <1>13 DEF Silent
  <2> QED BY <2>1, <2>2, <2>3
<1>15. \A i \in DOMAIN queried : queried[i].id \in TellingIds(token \o told)
  <2>1. ASSUME NEW i \in DOMAIN queried PROVE \E j \in DOMAIN told : told[j].type = "tool_call" /\ told[j].id = queried[i].id
    <3>1. PICK n \in asked : queried[i] = calls[n]
      BY <1>8
    <3>2. n \in named
      BY <1>c
    <3>3. PICK k \in 1..Len(announced) : announced[k] = calls[n]
      BY <1>7, <3>2
    <3>4. k \in DOMAIN told /\ told[k] = ToolCallEvent(announced[k])
      BY <1>4, <1>10
    <3> QED BY <3>1, <3>3, <3>4 DEF ToolCallEvent
  <2>2. ASSUME NEW i \in DOMAIN queried PROVE queried[i].id \in TellingIds(token \o told)
    <3>1. PICK j \in DOMAIN told : told[j].type = "tool_call" /\ told[j].id = queried[i].id
      BY <2>1
    <3>2. PICK l \in DOMAIN (token \o told) : (token \o told)[l] = told[j]
      BY <1>14
    <3> QED BY <3>1, <3>2 DEF TellingIds
  <2> QED BY <2>2
<1>16. /\ out.events = token \o told
       /\ out.emitter = [question |-> e.question, queries |-> e.queries \o queried,
                         emitted |-> e.emitted, synthetic |-> e.synthetic]
  BY <1>6 DEF EmitterOf
<1>17. PICK qs : qs = e.queries \o queried
  OBVIOUS
<1>18. qs \in Seq(Identified(C)) /\ \A i \in DOMAIN qs : (\E j \in DOMAIN e.queries : qs[i] = e.queries[j]) \/ (\E j \in DOMAIN queried : qs[i] = queried[j])
  BY <1>9, <1>17 DEF EmitterOf
<1>19. EmitterOf(C, out.emitter)
  BY <1>16, <1>17, <1>18 DEF EmitterOf
<1>20. QueryIds(out.emitter) \subseteq QueryIds(e) \cup TellingIds(out.events)
  BY <1>15, <1>16, <1>17, <1>18 DEF QueryIds
<1>21. /\ out.emitter.question = e.question /\ out.emitter.synthetic = e.synthetic
       /\ out.events \in Seq(Heard(C, e.question)) /\ Silent(out.events, "retrieved_docs")
  BY <1>14, <1>16
<1> QED BY <1>5, <1>19, <1>20, <1>21

(* One message further. *)
Stepped(f, messages, i) ==
  [emitter |-> Emit(f[i - 1].emitter, messages[i]).emitter,
   events |-> f[i - 1].events \o Emit(f[i - 1].emitter, messages[i]).events]

(* A chunk is emitted message by message: the recursion is well-founded. *)
LEMMA EmitAllSteps ==
  ASSUME NEW M, NEW e, NEW messages \in Seq(M)
  PROVE  \E made : /\ made[0] = [emitter |-> e, events |-> <<>>]
                   /\ \A i \in 1..Len(messages) : made[i] = Stepped(made, messages, i)
                   /\ EmitAll(e, messages) = made[Len(messages)]
<1> DEFINE G(f, i) == IF i = 0 THEN [emitter |-> e, events |-> <<>>] ELSE Stepped(f, messages, i)
           Has(n) == \E f : f = [i \in 0..n |-> G(f, i)]
           Bad == {n \in Nat : ~ Has(n)}
<1>1. PICK L \in Nat : L = Len(messages)
  OBVIOUS
<1>2. Bad = {}
  <2>1. SUFFICES ASSUME Bad # {} PROVE FALSE
    OBVIOUS
  <2>2. PICK n : n = Min(Bad)
    OBVIOUS
  <2>3. n \in Bad /\ \A j \in Bad : n <= j
    <3>1. Bad \in SUBSET Nat
      OBVIOUS
    <3> HIDE DEF Bad
    <3> QED BY <2>1, <2>2, <3>1, LeastNat
  <2>4. n \in Nat /\ ~ Has(n)
    BY <2>3
  <2>5. CASE n = 0
    <3>1. PICK f : f = [i \in 0..n |-> [emitter |-> e, events |-> <<>>]]
      OBVIOUS
    <3>2. f = [i \in 0..n |-> G(f, i)]
      BY <3>1, <2>5
    <3> QED BY <2>4, <3>2
  <2>6. CASE n # 0
    <3>1. n - 1 \in Nat /\ ~ (n <= n - 1)
      BY <2>4, <2>6
    <3>2. Has(n - 1)
      BY <3>1, <2>3
    <3>3. PICK f : f = [i \in 0..(n - 1) |-> G(f, i)]
      BY <3>2
    <3>4. PICK g : g = [i \in 0..n |-> IF i = n THEN G(f, n) ELSE f[i]]
      OBVIOUS
    <3>5. ASSUME NEW i \in 0..n PROVE g[i] = G(g, i)
      <4>1. g[i] = G(f, i)
        <5>1. CASE i = n
          BY <3>4, <5>1
        <5>2. CASE i # n
          <6>1. i \in 0..(n - 1)
            BY <5>2, <2>4, <2>6
          <6>2. g[i] = f[i]
            BY <5>2, <3>4
          <6>3. f[i] = G(f, i)
            <7> HIDE DEF G
            <7> QED BY <3>3, <6>1
          <6> QED BY <6>2, <6>3
        <5> QED BY <5>1, <5>2
      <4>2. CASE i = 0
        BY <4>1, <4>2
      <4>3. CASE i # 0
        <5>1. i - 1 \in 0..n /\ i - 1 # n
          BY <4>3, <2>4
        <5>2. g[i - 1] = f[i - 1]
          BY <3>4, <5>1
        <5> QED BY <4>1, <4>3, <5>2 DEF Stepped
      <4> QED BY <4>2, <4>3
    <3>6. g = [i \in 0..n |-> G(g, i)]
      <4>1. DOMAIN g = 0..n /\ g = [i \in 0..n |-> g[i]]
        BY <3>4
      <4> HIDE DEF G
      <4> QED BY <4>1, <3>5
    <3> QED BY <3>6, <2>4
  <2> QED BY <2>5, <2>6
<1>3. Has(L)
  <2> HIDE DEF Has
  <2> QED BY <1>1, <1>2
<1>4. PICK made : made = CHOOSE f : f = [i \in 0..L |-> G(f, i)]
  OBVIOUS
<1>5. made = [i \in 0..L |-> G(made, i)]
  <2> HIDE DEF G
  <2> QED BY <1>3, <1>4
<1>6. EmitAll(e, messages) = made[L]
  BY <1>1, <1>4 DEF EmitAll, Stepped
<1>7. made[0] = [emitter |-> e, events |-> <<>>]
  <2>1. 0 \in 0..L
    OBVIOUS
  <2>2. made[0] = G(made, 0)
    <3> HIDE DEF G
    <3> QED BY <1>5, <2>1
  <2> QED BY <2>2
<1>8. ASSUME NEW i \in 1..L PROVE made[i] = Stepped(made, messages, i)
  <2>1. i \in 0..L /\ i # 0
    OBVIOUS
  <2>2. made[i] = G(made, i)
    <3> HIDE DEF G
    <3> QED BY <1>5, <2>1
  <2> QED BY <2>1, <2>2
<1> QED BY <1>1, <1>6, <1>7, <1>8

(* A chunk of one message is that message's events. *)
LEMMA EmitOne ==
  ASSUME NEW e, NEW msg, NEW S, Emit(e, msg).events \in Seq(S)
  PROVE  EmitAll(e, <<msg>>) = [emitter |-> Emit(e, msg).emitter, events |-> Emit(e, msg).events]
<1>1. PICK messages : messages = <<msg>>
  OBVIOUS
<1>2. messages \in Seq({msg}) /\ Len(messages) = 1 /\ messages[1] = msg
  BY <1>1
<1>3. PICK made : /\ made[0] = [emitter |-> e, events |-> <<>>]
                  /\ \A i \in 1..Len(messages) : made[i] = Stepped(made, messages, i)
                  /\ EmitAll(e, messages) = made[Len(messages)]
  BY <1>2, EmitAllSteps
<1>4. made[1] = Stepped(made, messages, 1) /\ EmitAll(e, messages) = made[1]
  BY <1>2, <1>3
<1>5. 1 - 1 = 0
  OBVIOUS
<1>6. made[0].emitter = e /\ made[0].events = <<>>
  BY <1>3
<1>7. <<>> \o Emit(e, msg).events = Emit(e, msg).events
  <2>1. PICK w : w = Emit(e, msg).events
    OBVIOUS
  <2>2. w \in Seq(S)
    BY <2>1
  <2>3. <<>> \o w = w
    BY <2>2
  <2> QED BY <2>1, <2>3
<1>8. Stepped(made, messages, 1) = [emitter |-> Emit(e, msg).emitter, events |-> Emit(e, msg).events]
  BY <1>2, <1>5, <1>6, <1>7 DEF Stepped
<1> QED BY <1>1, <1>4, <1>8

-----------------------------------------------------------------------------
(* What the answers of the tools are heard as: no announcement, and retrievals
   under the ids of calls only. *)
AnswersHeard(C, q) ==
  {ev \in Heard(C, q) : /\ ev.type # "tool_call"
                        /\ ev.type = "retrieved_docs" => \E c \in Identified(C) : c.id = ev.id}

(* The tools' messages, and an emitter that has announced nothing new. *)
ToolAnswers(C) == {ToolMessage(c, shape) : c \in C, shape \in AnyShape}

SameBut(e, f) == f.question = e.question /\ f.queries = e.queries /\ f.synthetic = e.synthetic

(* A tool's message is heard as its result, its artifact and its documents. *)
LEMMA ToolIsHeard ==
  ASSUME NEW C \in SUBSET Callings, NEW e, EmitterOf(C, e), NEW msg \in ToolAnswers(C)
  PROVE  /\ EmitterOf(C, Emit(e, msg).emitter) /\ SameBut(e, Emit(e, msg).emitter)
         /\ Emit(e, msg).events \in Seq(AnswersHeard(C, e.question))
<1>1. PICK call \in C, shape \in AnyShape : msg = ToolMessage(call, shape)
  BY DEF ToolAnswers
<1>2. msg.kind = "tool" /\ msg.call = call /\ msg.shape = shape
  BY <1>1 DEF ToolMessage
<1>3. Emit(e, msg) = EmitTool(e, msg)
  BY <1>2 DEF Emit
<1> DEFINE retrieved == shape \in {"chunks", "no chunks"} /\ call.id # ""
           norm == NormOf[call.question]
<1>4. PICK first : first = IF shape = "artifact" THEN <<[type |-> "artifact_ready", id |-> call.id]>> ELSE <<>>
  OBVIOUS
<1>5. PICK second : second = <<ToolResultEvent(call, shape)>>
  OBVIOUS
<1>6. PICK third : third = IF retrieved THEN <<RetrievedEvent(call.id, call.question, shape = "chunks")>> ELSE <<>>
  OBVIOUS
<1>7. PICK marked : marked = IF retrieved /\ norm # "" THEN e.emitted \cup {norm} ELSE e.emitted
  OBVIOUS
<1>8. PICK out : out = Emit(e, msg)
  OBVIOUS
<1>9. out.emitter = [e EXCEPT !.emitted = marked] /\ out.events = first \o second \o third
  <2>1. PICK m : m = ToolMessage(call, shape)
    OBVIOUS
  <2>2. m.call = call /\ m.shape = shape /\ m = msg
    BY <1>1, <2>1 DEF ToolMessage
  <2>3. EmitTool(e, m) =
          [emitter |-> [e EXCEPT !.emitted =
             IF (m.shape \in {"chunks", "no chunks"} /\ m.call.id # "") /\ NormOf[m.call.question] # ""
             THEN e.emitted \cup {NormOf[m.call.question]} ELSE e.emitted],
           events |-> (IF m.shape = "artifact" THEN <<[type |-> "artifact_ready", id |-> m.call.id]>> ELSE <<>>)
             \o <<ToolResultEvent(m.call, m.shape)>>
             \o (IF m.shape \in {"chunks", "no chunks"} /\ m.call.id # ""
                 THEN <<RetrievedEvent(m.call.id, m.call.question, m.shape = "chunks")>> ELSE <<>>)]
    BY DEF EmitTool
  <2>4. EmitTool(e, m) =
          [emitter |-> [e EXCEPT !.emitted = marked], events |-> first \o second \o third]
    BY <2>2, <2>3, <1>4, <1>5, <1>6, <1>7
  <2> QED BY <1>3, <1>8, <2>2, <2>4
<1>10. out.emitter = [question |-> e.question, queries |-> e.queries, emitted |-> marked, synthetic |-> e.synthetic]
  BY <1>9 DEF EmitterOf
<1>11. EmitterOf(C, out.emitter) /\ SameBut(e, out.emitter)
  BY <1>10 DEF EmitterOf, SameBut
<1>12. PICK A : A = AnswersHeard(C, e.question)
  OBVIOUS
<1>13. call.id \in Identities /\ call.question \in QueryTexts
  BY DEF Callings, Identities
<1>14. [type |-> "artifact_ready", id |-> call.id] \in A
  <2>1. PICK ev : ev = [type |-> "artifact_ready", id |-> call.id]
    OBVIOUS
  <2>2. ev \in Heard(C, e.question)
    BY <1>13, <2>1 DEF Heard, ResultEvents
  <2>3. ev.type = "artifact_ready"
    BY <2>1
  <2> QED BY <1>12, <2>1, <2>2, <2>3 DEF AnswersHeard
<1>15. ToolResultEvent(call, shape) \in A
  <2>1. PICK ev : ev = ToolResultEvent(call, shape)
    OBVIOUS
  <2>2. ev \in Heard(C, e.question)
    BY <1>13, <2>1 DEF Heard, ResultEvents, ToolResultEvent
  <2>3. ev.type = "tool_result"
    BY <2>1 DEF ToolResultEvent
  <2> QED BY <1>12, <2>1, <2>2, <2>3 DEF AnswersHeard
<1>16. retrieved => RetrievedEvent(call.id, call.question, shape = "chunks") \in A
  <2>1. SUFFICES ASSUME retrieved PROVE RetrievedEvent(call.id, call.question, shape = "chunks") \in A
    OBVIOUS
  <2>2. call \in Identified(C)
    BY <2>1 DEF Identified
  <2>3. Belongs(C, e.question, call.id, call.question)
    BY <2>2 DEF Belongs, AskedUnder
  <2>4. PICK b \in BOOLEAN : b = (shape = "chunks")
    OBVIOUS
  <2>5. PICK ev : ev = RetrievedEvent(call.id, call.question, b)
    OBVIOUS
  <2>6. ev \in Heard(C, e.question)
    BY <1>13, <2>3, <2>5 DEF Heard, Retrievals, RetrievedEvent
  <2>7. ev.type = "retrieved_docs" /\ ev.id = call.id
    BY <2>5 DEF RetrievedEvent
  <2>8. ev \in A
    BY <1>12, <2>2, <2>6, <2>7 DEF AnswersHeard
  <2> QED BY <2>4, <2>5, <2>8
<1>17. first \in Seq(A) /\ second \in Seq(A)
  <2>1. <<>> \in Seq(A)
    OBVIOUS
  <2>2. first \in Seq(A)
    BY <1>4, <1>14, <2>1
  <2>3. second \in Seq(A)
    BY <1>5, <1>15
  <2> QED BY <2>2, <2>3
<1>18. third \in Seq(A)
  <2>1. <<>> \in Seq(A)
    OBVIOUS
  <2>2. PICK r : r = RetrievedEvent(call.id, call.question, shape = "chunks")
    OBVIOUS
  <2>3. CASE retrieved
    <3>1. third = <<r>> /\ r \in A
      BY <1>6, <1>16, <2>2, <2>3
    <3> QED BY <3>1
  <2>4. CASE ~ retrieved
    BY <1>6, <2>1, <2>4
  <2> QED BY <2>3, <2>4
<1>19. first \o second \o third \in Seq(A)
  BY <1>17, <1>18
<1> QED BY <1>8, <1>9, <1>11, <1>12, <1>19

(* And so are the messages of a chunk of several. *)
LEMMA ToolsAreHeard ==
  ASSUME NEW C \in SUBSET Callings, NEW e, EmitterOf(C, e), NEW messages \in Seq(ToolAnswers(C))
  PROVE  /\ EmitterOf(C, EmitAll(e, messages).emitter) /\ SameBut(e, EmitAll(e, messages).emitter)
         /\ EmitAll(e, messages).events \in Seq(AnswersHeard(C, e.question))
<1>1. PICK made : /\ made[0] = [emitter |-> e, events |-> <<>>]
                  /\ \A i \in 1..Len(messages) : made[i] = Stepped(made, messages, i)
                  /\ EmitAll(e, messages) = made[Len(messages)]
  BY EmitAllSteps
<1>2. PICK L \in Nat : L = Len(messages)
  OBVIOUS
<1> DEFINE Good(i) == /\ EmitterOf(C, made[i].emitter) /\ SameBut(e, made[i].emitter)
                      /\ made[i].events \in Seq(AnswersHeard(C, e.question))
           Bad == {i \in 0..L : ~ Good(i)}
<1>3. Good(0)
  <2>1. made[0].emitter = e /\ made[0].events = <<>>
    BY <1>1
  <2>2. <<>> \in Seq(AnswersHeard(C, e.question))
    OBVIOUS
  <2> QED BY <2>1, <2>2 DEF SameBut
<1>4. ASSUME NEW i \in 1..L, Good(i - 1) PROVE Good(i)
  <2>1. PICK f, past : f = made[i - 1].emitter /\ past = made[i - 1].events
    OBVIOUS
  <2>2. EmitterOf(C, f) /\ SameBut(e, f) /\ past \in Seq(AnswersHeard(C, e.question))
    BY <1>4, <2>1
  <2>3. PICK msg \in ToolAnswers(C) : msg = messages[i]
    BY <1>2
  <2>4. PICK out : out = Emit(f, msg)
    OBVIOUS
  <2>5. made[i] = [emitter |-> out.emitter, events |-> past \o out.events]
    BY <1>1, <1>2, <2>1, <2>3, <2>4 DEF Stepped
  <2>6. /\ EmitterOf(C, out.emitter) /\ SameBut(f, out.emitter)
        /\ out.events \in Seq(AnswersHeard(C, f.question))
    BY <2>2, <2>4, ToolIsHeard
  <2>7. f.question = e.question /\ SameBut(e, out.emitter)
    BY <2>2, <2>6 DEF SameBut
  <2>8. PICK A : A = AnswersHeard(C, e.question)
    OBVIOUS
  <2>9. past \in Seq(A) /\ out.events \in Seq(A)
    BY <2>2, <2>6, <2>7, <2>8
  <2>10. past \o out.events \in Seq(A)
    BY <2>9
  <2> QED BY <2>5, <2>6, <2>7, <2>8, <2>10
<1>5. Good(L)
  <2>1. SUFFICES ASSUME Bad # {} PROVE FALSE
    <3>1. L \in 0..L
      OBVIOUS
    <3> HIDE DEF Good
    <3> QED BY <3>1
  <2>2. PICK n : n = Min(Bad)
    OBVIOUS
  <2>3. n \in Bad /\ \A j \in Bad : n <= j
    <3>1. Bad \in SUBSET Nat
      OBVIOUS
    <3> HIDE DEF Bad
    <3> QED BY <2>1, <2>2, <3>1, LeastNat
  <2> HIDE DEF Good
  <2>4. n \in 0..L /\ ~ Good(n)
    BY <2>3
  <2>5. n # 0
    BY <1>3, <2>4
  <2>6. n - 1 \in 0..L /\ n \in 1..L /\ ~ (n <= n - 1)
    BY <2>4, <2>5
  <2>7. Good(n - 1)
    BY <2>3, <2>6
  <2> QED BY <1>4, <2>4, <2>6, <2>7
<1> QED BY <1>1, <1>2, <1>5

(* The ids that the server has announced: of its calls, and the retriever's. *)
Announced(e) == QueryIds(e) \cup (IF e.synthetic THEN {RetrieverCall} ELSE {})
ToldBefore(w, i) == {w[j].id : j \in {k \in 1..(i - 1) : w[k].type = "tool_call"}}

(* The documents of the retriever's node are heard under the id of a query that was
   announced: one of the model's, or the retriever's own, announced before them. *)
LEMMA DocsAreHeard ==
  ASSUME NEW C \in SUBSET Callings, NEW e, EmitterOf(C, e), NEW some \in BOOLEAN
  PROVE  LET out == Emit(e, RetrievedDocs(some)) IN
         /\ EmitterOf(C, out.emitter)
         /\ out.emitter.question = e.question /\ out.emitter.queries = e.queries
         /\ out.events \in Seq(Heard(C, e.question))
         /\ out.emitter.synthetic => e.synthetic \/ RetrieverCall \in TellingIds(out.events)
         /\ \A i \in DOMAIN out.events :
              out.events[i].type = "retrieved_docs"
                => out.events[i].id \in Announced(e) \cup ToldBefore(out.events, i)
<1> DEFINE Goal(out) ==
       /\ EmitterOf(C, out.emitter)
       /\ out.emitter.question = e.question /\ out.emitter.queries = e.queries
       /\ out.events \in Seq(Heard(C, e.question))
       /\ out.emitter.synthetic => e.synthetic \/ RetrieverCall \in TellingIds(out.events)
       /\ \A i \in DOMAIN out.events :
            out.events[i].type = "retrieved_docs"
              => out.events[i].id \in Announced(e) \cup ToldBefore(out.events, i)
           norm == NormOf[e.question]
           announced == MatchingRagCallId(e) = {} /\ ~ e.synthetic
<1>c. PICK out : out = Emit(e, RetrievedDocs(some))
  OBVIOUS
<1>1. PICK msg : msg = RetrievedDocs(some)
  OBVIOUS
<1>2. msg.kind = "docs" /\ msg.some = some
  BY <1>1 DEF RetrievedDocs
<1>3. out = EmitDocs(e, msg)
  BY <1>c, <1>1, <1>2 DEF Emit
<1>4. PICK matching : matching = MatchingRagCallId(e)
  OBVIOUS
<1>5. PICK id : id = IF matching = {} THEN RetrieverCall ELSE CHOOSE i \in matching : TRUE
  OBVIOUS
<1>6. PICK announce : announce = (matching = {} /\ ~ e.synthetic)
  OBVIOUS
<1>7. PICK marked : marked = IF norm # "" THEN e.emitted \cup {norm} ELSE e.emitted
  OBVIOUS
<1>8. PICK call : call = ToolCallEvent(Call(id, "rag_query", e.question))
  OBVIOUS
<1>9. PICK hit : hit = RetrievedEvent(id, e.question, TRUE)
  OBVIOUS
<1>a. PICK synthetic : synthetic = (e.synthetic \/ announce)
  OBVIOUS
<1>b. synthetic \in BOOLEAN
  BY <1>a
<1>10. \/ out = [emitter |-> e, events |-> <<>>]
       \/ out = [emitter |-> [e EXCEPT !.synthetic = synthetic, !.emitted = marked],
                 events |-> (IF announce THEN <<call>> ELSE <<>>) \o <<hit>>]
  BY <1>2, <1>3, <1>4, <1>5, <1>6, <1>7, <1>8, <1>9, <1>a DEF EmitDocs
<1>11. matching # {} => \E i \in DOMAIN e.queries :
                          matching = {e.queries[i].id} /\ NormOf[e.queries[i].question] = norm
  <2>1. SUFFICES ASSUME matching # {}
                 PROVE \E i \in DOMAIN e.queries :
                          matching = {e.queries[i].id} /\ NormOf[e.queries[i].question] = norm
    OBVIOUS
  <2>2. PICK L \in Nat : DOMAIN e.queries = 1..L
    BY DEF EmitterOf
  <2>3. PICK same : same = {i \in DOMAIN e.queries : NormOf[e.queries[i].question] = NormOf[e.question]}
    OBVIOUS
  <2>4. same # {} /\ matching = {e.queries[Max(same)].id}
    BY <1>4, <2>1, <2>3 DEF MatchingRagCallId
  <2>5. same \in SUBSET (1..L)
    BY <2>2, <2>3
  <2>6. Max(same) \in same
    BY <2>4, <2>5, GreatestIndex
  <2> QED BY <2>3, <2>4, <2>6
<1>12. PICK q : q = e.question
  OBVIOUS
<1>13. Belongs(C, q, id, q) /\ id \in Identities /\ q \in QueryTexts
       /\ (matching # {} => id \in QueryIds(e)) /\ (matching = {} => id = RetrieverCall)
  <2>0. q \in QueryTexts
    BY <1>12 DEF EmitterOf
  <2>1. CASE matching = {}
    <3>1. id = RetrieverCall
      BY <1>5, <2>1
    <3> QED BY <2>0, <2>1, <3>1 DEF Belongs, AskedUnder, Identities
  <2>2. CASE matching # {}
    <3>1. PICK i \in DOMAIN e.queries :
                 matching = {e.queries[i].id} /\ NormOf[e.queries[i].question] = norm
      BY <1>11, <2>2
    <3>2. PICK c \in Identified(C) : c = e.queries[i]
      BY DEF EmitterOf
    <3>3. id = c.id
      BY <1>5, <3>1, <3>2
    <3>4. NormOf[c.question] = NormOf[q]
      BY <3>1, <3>2, <1>12
    <3>5. Belongs(C, q, id, q)
      BY <3>3, <3>4 DEF Belongs, AskedUnder
    <3>6. id \in Identities
      BY <3>3 DEF Identified, Callings, Identities
    <3>7. id \in QueryIds(e)
      BY <3>2, <3>3 DEF QueryIds
    <3> QED BY <2>0, <2>2, <3>5, <3>6, <3>7
  <2> QED BY <2>1, <2>2
<1>14. PICK H : H = Heard(C, q)
  OBVIOUS
<1>15. hit \in H /\ hit.type = "retrieved_docs" /\ hit.id = id
  <2>1. hit \in Retrievals(C, q)
    BY <1>9, <1>12, <1>13 DEF Retrievals, RetrievedEvent
  <2> QED BY <1>9, <1>14, <2>1 DEF Heard, RetrievedEvent
<1>16. announce => call \in H /\ call.type = "tool_call" /\ call.id = RetrieverCall /\ id = RetrieverCall
  <2>1. SUFFICES ASSUME announce PROVE call \in H /\ call.type = "tool_call" /\ call.id = RetrieverCall /\ id = RetrieverCall
    OBVIOUS
  <2>2. id = RetrieverCall
    BY <1>6, <1>13, <2>1
  <2>3. call = [type |-> "tool_call", id |-> RetrieverCall, tool |-> "rag_query", question |-> q]
    BY <1>8, <1>12, <2>2 DEF ToolCallEvent, Call
  <2>4. AskedUnder(C, q, RetrieverCall, q) /\ RetrieverCall # ""
    BY DEF AskedUnder, RetrieverCall
  <2>5. call \in Announcements(C, q)
    BY <1>13, <2>2, <2>3, <2>4 DEF Announcements
  <2> QED BY <1>14, <2>2, <2>3, <2>5 DEF Heard
<1>17. ASSUME out = [emitter |-> e, events |-> <<>>] PROVE Goal(out)
  <2>1. out.emitter = e /\ out.events = <<>>
    BY <1>17
  <2>2. <<>> \in Seq(Heard(C, e.question)) /\ DOMAIN <<>> = {}
    OBVIOUS
  <2> QED BY <2>1, <2>2
<1>18. ASSUME out = [emitter |-> [e EXCEPT !.synthetic = synthetic, !.emitted = marked],
                   events |-> (IF announce THEN <<call>> ELSE <<>>) \o <<hit>>]
       PROVE Goal(out)
  <2>1. out.emitter = [question |-> e.question, queries |-> e.queries, emitted |-> marked,
                       synthetic |-> synthetic]
    <3>1. [e EXCEPT !.synthetic = synthetic, !.emitted = marked]
            = [question |-> e.question, queries |-> e.queries, emitted |-> marked, synthetic |-> synthetic]
      <4>1. PICK question, queries, emitted, had :
              question = e.question /\ queries = e.queries /\ emitted = e.emitted /\ had = e.synthetic
        OBVIOUS
      <4>2. e = [question |-> question, queries |-> queries, emitted |-> emitted, synthetic |-> had]
        BY <4>1 DEF EmitterOf
      <4>3. PICK f : f = [question |-> question, queries |-> queries, emitted |-> emitted, synthetic |-> had]
        OBVIOUS
      <4>4. [f EXCEPT !.synthetic = synthetic, !.emitted = marked]
              = [question |-> question, queries |-> queries, emitted |-> marked, synthetic |-> synthetic]
        <5>1. PICK g : g = [f EXCEPT !.synthetic = synthetic]
          OBVIOUS
        <5>2. g = [question |-> question, queries |-> queries, emitted |-> emitted, synthetic |-> synthetic]
          BY <4>3, <5>1
        <5>3. [g EXCEPT !.emitted = marked]
                = [question |-> question, queries |-> queries, emitted |-> marked, synthetic |-> synthetic]
          BY <5>2
        <5>4. [g EXCEPT !.emitted = marked] = [f EXCEPT !.synthetic = synthetic, !.emitted = marked]
          BY <5>1
        <5> QED BY <5>3, <5>4
      <4>5. f = e
        BY <4>2, <4>3
      <4> QED BY <4>1, <4>4, <4>5
    <3>2. out.emitter = [e EXCEPT !.synthetic = synthetic, !.emitted = marked]
      BY <1>18
    <3> QED BY <3>1, <3>2
  <2>3. EmitterOf(C, out.emitter)
    BY <1>b, <2>1 DEF EmitterOf
  <2>4. CASE announce
    <3>1. out.events = <<call>> \o <<hit>>
      BY <1>18, <2>4
    <3>2. PICK w, u, v : w = u \o v /\ u = <<call>> /\ v = <<hit>>
      OBVIOUS
    <3>a. u \in Seq(H) /\ v \in Seq(H) /\ Len(u) = 1 /\ Len(v) = 1 /\ u[1] = call /\ v[1] = hit
      BY <1>15, <1>16, <2>4, <3>2
    <3>3. DOMAIN w = 1..2 /\ w[1] = call /\ w[2] = hit /\ w \in Seq(H)
      BY <3>2, <3>a
    <3>d. out.events = w
      BY <3>1, <3>2
    <3>4. RetrieverCall \in TellingIds(w)
      <4>1. 1 \in DOMAIN w /\ w[1].type = "tool_call" /\ w[1].id = RetrieverCall
        BY <1>16, <2>4, <3>3
      <4> QED BY <4>1 DEF TellingIds
    <3>5. ASSUME NEW i \in DOMAIN w, w[i].type = "retrieved_docs" PROVE w[i].id \in ToldBefore(w, i)
      <4>1. i = 2
        BY <1>16, <2>4, <3>3, <3>5
      <4>2. 1 \in 1..(i - 1) /\ w[1].type = "tool_call" /\ w[1].id = w[i].id
        BY <1>15, <1>16, <2>4, <3>3, <4>1
      <4> QED BY <4>2 DEF ToldBefore
    <3>6. out.emitter.question = e.question /\ out.emitter.queries = e.queries
      BY <2>1
    <3> QED BY <1>12, <1>14, <2>3, <3>3, <3>d, <3>4, <3>5, <3>6
  <2>5. CASE ~ announce
    <3>1. out.events = <<>> \o <<hit>>
      BY <1>18, <2>5
    <3>2. PICK w : w = <<hit>>
      OBVIOUS
    <3>3. <<>> \o <<hit>> = w /\ DOMAIN w = 1..1 /\ w[1] = hit /\ w \in Seq(H)
      BY <1>15, <3>2
    <3>4. out.emitter.synthetic = e.synthetic
      BY <1>a, <2>1, <2>5 DEF EmitterOf
    <3>5. id \in Announced(e)
      BY <1>6, <1>13, <2>5 DEF Announced
    <3>6. ASSUME NEW i \in DOMAIN w PROVE w[i].id \in Announced(e)
      BY <1>15, <3>3, <3>5
    <3>7. out.emitter.question = e.question /\ out.emitter.queries = e.queries
      BY <2>1
    <3>8. out.events = w
      BY <3>1, <3>3
    <3> QED BY <1>12, <1>14, <2>3, <3>3, <3>4, <3>6, <3>7, <3>8
  <2> QED BY <2>4, <2>5
<1>19. Goal(out)
  BY <1>10, <1>17, <1>18
<1> QED BY <1>c, <1>19

(* The previews of a page that listens to a stream of the question q; and that
   each shows only what belongs to its question. *)
PreviewsOf(C, q, previews) ==
  \A p \in previews : {"id", "question", "chunksOf", "status", "result", "full"} \subseteq DOMAIN p
                      /\ p.id # "" /\ AskedUnder(C, q, p.id, p.question)
(* A preview that says that documents were found shows those of its question. *)
Truthful(previews) ==
  \A p \in previews : {"id", "question", "chunksOf", "status", "result", "full"} \subseteq DOMAIN p
                      /\ \A of \in p.chunksOf : NormOf[of] = NormOf[p.question]

(* The calls of a turn have ids of their own, if any. *)
OwnIds(C) == \A c, d \in C : c.id # RetrieverCall /\ (c.id = d.id /\ c.id # "" => c = d)

(* An event is of one kind. *)
LEMMA EventKinds ==
  ASSUME NEW C, NEW q, NEW event \in Heard(C, q)
  PROVE  \/ event.type = "tool_call" /\ event \in Announcements(C, q)
         \/ event.type = "retrieved_docs" /\ event \in Retrievals(C, q)
         \/ event.type \in {"tool_result", "artifact_ready", "token"} /\ event \in ResultEvents
<1>1. \/ event \in Announcements(C, q) \/ event \in Retrievals(C, q) \/ event \in ResultEvents
  BY DEF Heard
<1>2. event \in Announcements(C, q) => event.type = "tool_call"
  BY DEF Announcements
<1>3. event \in Retrievals(C, q) => event.type = "retrieved_docs"
  BY DEF Retrievals
<1>4. event \in ResultEvents => event.type \in {"tool_result", "artifact_ready", "token"}
  <2>1. event \in [type : {"tool_result"}, id : Identities, preview : AnyShape, full : BOOLEAN] => event.type = "tool_result"
    OBVIOUS
  <2>2. event \in [type : {"artifact_ready"}, id : Identities] => event.type = "artifact_ready"
    OBVIOUS
  <2>3. event = Token => event.type = "token"
    BY DEF Token
  <2> QED BY <2>1, <2>2, <2>3 DEF ResultEvents
<1> QED BY <1>1, <1>2, <1>3, <1>4

(* An event that comes after the announcement it refers to leaves the previews
   truthful (handle_tool_event). *)
LEMMA EventIsTold ==
  ASSUME NEW C \in SUBSET Callings, OwnIds(C), NEW q, NEW previews,
         PreviewsOf(C, q, previews), Truthful(previews),
         NEW event \in Heard(C, q), event.type # "token", event.type # "artifact_ready"
  PROVE  LET told == HandleToolEvent(previews, event) IN
         /\ PreviewsOf(C, q, told) /\ Truthful(told)
         /\ Known(previews) \subseteq Known(told)
         /\ event.type = "tool_call" => event.id \in Known(told)
<1>1. PICK told : told = HandleToolEvent(previews, event)
  OBVIOUS
<1>2. CASE event.id = ""
  <2>1. event.type # "tool_call"
    <3>1. event.type = "tool_call" => event \in Announcements(C, q)
      BY EventKinds
    <3> QED BY <1>2, <3>1 DEF Announcements
  <2>2. told = previews
    BY <1>1, <1>2 DEF HandleToolEvent
  <2> QED BY <1>1, <2>1, <2>2
<1>3. CASE event.id # "" /\ event.type = "tool_call"
  <2>1. PICK new : new = Preview(event.id, event.tool, event.question)
    OBVIOUS
  <2>2. told = {p \in previews : p.id # event.id} \cup {new}
    BY <1>1, <1>3, <2>1 DEF HandleToolEvent
  <2>3. event \in Announcements(C, q)
    BY <1>3, EventKinds
  <2>4. new.id = event.id /\ new.question = event.question /\ new.chunksOf = {}
        /\ {"id", "question", "chunksOf", "status", "result", "full"} \subseteq DOMAIN new
    BY <2>1 DEF Preview
  <2>5. PreviewsOf(C, q, told)
    BY <2>2, <2>3, <2>4 DEF PreviewsOf, Announcements
  <2>6. Truthful(told)
    BY <2>2, <2>4 DEF Truthful
  <2>7. Known(previews) \subseteq Known(told) /\ event.id \in Known(told)
    BY <2>2, <2>4 DEF Known
  <2> QED BY <1>1, <2>5, <2>6, <2>7
<1>4. CASE event.id # "" /\ event.type = "tool_result"
  <2> DEFINE Change(p) == [p EXCEPT !.status = "done", !.result = event.preview, !.full = p.full \/ event.full]
  <2>1. told = {IF p.id = event.id THEN Change(p) ELSE p : p \in previews}
    BY <1>1, <1>4 DEF HandleToolEvent, Updated
  <2>2. ASSUME NEW p \in previews
        PROVE  /\ Change(p).id = p.id /\ Change(p).question = p.question /\ Change(p).chunksOf = p.chunksOf
               /\ DOMAIN Change(p) = DOMAIN p
    BY DEF Truthful
  <2> HIDE DEF Change
  <2>3. PreviewsOf(C, q, told)
    BY <2>1, <2>2 DEF PreviewsOf
  <2>4. Truthful(told)
    BY <2>1, <2>2 DEF Truthful
  <2>5. Known(previews) \subseteq Known(told)
    BY <2>1, <2>2 DEF Known
  <2> QED BY <1>1, <1>4, <2>3, <2>4, <2>5
<1>5. CASE event.id # "" /\ event.type = "retrieved_docs"
  <2> DEFINE Change(p) == [p EXCEPT !.status = "done", !.result = "chunks",
                                    !.chunksOf = IF event.some THEN {event.of} ELSE p.chunksOf]
  <2>1. told = {IF p.id = event.id THEN Change(p) ELSE p : p \in previews}
    BY <1>1, <1>5 DEF HandleToolEvent, Updated
  <2>2. ASSUME NEW p \in previews
        PROVE  /\ Change(p).id = p.id /\ Change(p).question = p.question
               /\ Change(p).chunksOf \subseteq p.chunksOf \cup {event.of}
               /\ DOMAIN Change(p) = DOMAIN p
    BY DEF Truthful
  <2> HIDE DEF Change
  <2>3. PreviewsOf(C, q, told)
    <3>1. SUFFICES ASSUME NEW p \in told
                   PROVE  /\ {"id", "question", "chunksOf", "status", "result", "full"} \subseteq DOMAIN p
                          /\ p.id # "" /\ AskedUnder(C, q, p.id, p.question)
      BY DEF PreviewsOf
    <3>2. PICK o \in previews : p = o \/ p = Change(o)
      BY <2>1, Zenon
    <3>3. p.id = o.id /\ p.question = o.question /\ DOMAIN p = DOMAIN o
      BY <2>2, <3>2
    <3> QED BY <3>3 DEF PreviewsOf
  <2>4. Belongs(C, q, event.id, event.of)
    <3>1. event \in Retrievals(C, q)
      BY <1>5, EventKinds
    <3> QED BY <3>1 DEF Retrievals
  <2>5. ASSUME NEW p \in previews, p.id = event.id PROVE NormOf[event.of] = NormOf[p.question]
    <3>1. PICK question : AskedUnder(C, q, event.id, question) /\ NormOf[question] = NormOf[event.of]
      BY <2>4 DEF Belongs
    <3>2. AskedUnder(C, q, p.id, p.question)
      BY DEF PreviewsOf
    <3>3. p.question = question
      <4>1. CASE event.id = RetrieverCall
        BY <3>1, <3>2, <2>5, <4>1 DEF AskedUnder, OwnIds, Identified
      <4>2. CASE event.id # RetrieverCall
        <5>1. PICK c \in Identified(C) : c.id = event.id /\ c.question = question
          BY <3>1, <4>2 DEF AskedUnder
        <5>2. PICK d \in Identified(C) : d.id = event.id /\ d.question = p.question
          BY <3>2, <2>5, <4>2 DEF AskedUnder
        <5>3. c = d
          BY <5>1, <5>2, <1>5 DEF OwnIds, Identified
        <5> QED BY <5>1, <5>2, <5>3
      <4> QED BY <4>1, <4>2
    <3> QED BY <3>1, <3>3
  <2>6. Truthful(told)
    BY <2>1, <2>2, <2>5 DEF Truthful
  <2>7. Known(previews) \subseteq Known(told)
    BY <2>1, <2>2 DEF Known
  <2> QED BY <1>1, <1>5, <2>3, <2>6, <2>7
<1>6. event.type \in {"tool_call", "tool_result", "retrieved_docs"}
  BY EventKinds
<1> QED BY <1>2, <1>3, <1>4, <1>5, <1>6

-----------------------------------------------------------------------------
(* The screen: its inductive invariant, and what each action does.         *)

ScreenStages == {"closed", "idle", "posting", "connecting", "streaming"}
TabFields == {"stage", "sid", "messages", "registry", "prompt", "previews", "artifacts", "answer",
              "stream", "seen"}
Awaiting(tab) == tab.stage \in {"posting", "connecting", "streaming"}

(* The messages of the first n turns. *)
Messages(n) == [role : {"user", "assistant"}, sid : Sids, of : 1..n]
(* A turn of a scene: how far its graph is and what it has left to do. *)
TurnsOf(s) ==
  [at : {"asked", "planner", "tools", "answer", "end", "over"}, question : s.questions,
   settings : {SettingsPanel(widgets) : widgets \in s.panels}, tools : SUBSET Tools,
   answers : SUBSET ToolAnswers(CallsOf(s)), calls : Seq(CallsOf(s)), round : Nat]

(* A tab of a page with n turns so far. *)
TabTyped(tab, n) ==
  /\ DOMAIN tab = TabFields /\ DOMAIN tab.stream = {"turn", "emitter", "wire"}
  /\ tab.stage \in ScreenStages /\ tab.registry \subseteq Sids
  /\ tab.stage = "closed" => tab.sid = "" /\ tab.messages = <<>>
  /\ tab.stage # "closed" => tab.sid \in tab.registry
  /\ tab.messages \in Seq(Messages(n)) /\ tab.seen \in Nat
  /\ Awaiting(tab) => tab.prompt \in 1..n
  /\ tab.stage = "streaming" => tab.stream.turn \in 1..n

(* The inductive invariant's first part: types. *)
ScreenTyped ==
  /\ scene \in Scenes
  /\ store \in [Sids -> Seq(Messages(Len(turns)))]
  /\ cleared \in [Sids -> 0..scene.clears]
  /\ sessions \in [Sids -> 0..Len(turns)]
  /\ turns \in Seq(TurnsOf(scene))
  /\ \A n \in DOMAIN turns :
       turns[n].at \in {"asked", "planner", "tools"} => turns[n].round < Len(scene.answers)
  /\ DOMAIN screen = Tabs
  /\ \A t \in Tabs : TabTyped(screen[t], Len(turns))

(* Its second: no two tabs await the answer of one turn. *)
PromptsApart ==
  /\ \A t \in Tabs : screen[t].stage = "posting" => turns[screen[t].prompt].at = "asked"
  /\ \A t, u \in Tabs : t # u /\ Awaiting(screen[t]) /\ Awaiting(screen[u]) => screen[t].prompt # screen[u].prompt

(* The messages of a history are its session's own, each answer after its
   question; and they are in the store in the same order. *)
Own(messages, sid) == \A i \in DOMAIN messages : messages[i].sid = sid
(* An answer is of a prompt that is there. *)
Paired(messages, sid) ==
  \A i \in DOMAIN messages :
    messages[i].role = "assistant"
      => \E j \in 1..(i - 1) : messages[j] = Message("user", sid, messages[i].of)
(* What a page shows is a part of what is kept, in its order. *)
Within(messages, kept) ==
  /\ Range(messages) \subseteq Range(kept)
  /\ \A i, j \in DOMAIN messages, k, l \in DOMAIN kept :
       i < j /\ kept[k] = messages[i] /\ kept[l] = messages[j] => k < l
Unanswered(n) == \A s \in Sids : \A k \in DOMAIN store[s] : store[s][k].role = "assistant" => store[s][k].of # n

(* What is kept for a session; what is shown of it. *)
StoreKept(sid, kept, count) ==
  IsInjective(kept) /\ Own(kept, sid) /\ (count = 0 => Paired(kept, sid))
TabKept(tab, kept, count) ==
  /\ Own(tab.messages, tab.sid) /\ tab.seen <= count
  /\ count = 0 => Paired(tab.messages, tab.sid)
  /\ tab.seen = count => Within(tab.messages, kept)

(* Its third part: the history. *)
HistoryInv ==
  /\ \A s \in Sids : StoreKept(s, store[s], cleared[s])
  /\ \A t \in Tabs :
       LET tab == screen[t] IN
       /\ tab.stage # "closed" => TabKept(tab, store[tab.sid], cleared[tab.sid])
       /\ Awaiting(tab) => Message("user", tab.sid, tab.prompt) \in Range(tab.messages) /\ Unanswered(tab.prompt)

(* What a tab has heard of its stream, and what is still to come. *)
InOrder(e, previews, wire) ==
  \A i \in DOMAIN wire :
    wire[i].type = "retrieved_docs" /\ wire[i].id \in {RetrieverCall} \cup QueryIds(e)
      => wire[i].id \in Known(previews) \cup ToldBefore(wire, i)
(* Its fourth: what a tab shows, and will show of what is on the wire, is true. *)
TabTruthful(C, tab) ==
  LET e == tab.stream.emitter
      wire == tab.stream.wire
  IN  /\ Truthful(tab.previews)
      /\ tab.stage \in {"posting", "connecting"} => tab.previews = {}
      /\ tab.stage # "streaming" => wire = <<>>
      /\ tab.stage = "streaming" =>
           /\ EmitterOf(C, e) /\ PreviewsOf(C, e.question, tab.previews)
           /\ wire \in Seq(Heard(C, e.question))
           /\ Announced(e) \subseteq Known(tab.previews) \cup TellingIds(wire)
           /\ InOrder(e, tab.previews, wire)

StreamInv == \A t \in Tabs : TabTruthful(CallsOf(scene), screen[t])

(* One tab changes. *)
Only(t) == DOMAIN screen' = Tabs /\ \A u \in Tabs : u # t => screen'[u] = screen[u]
Shaped(tab) == DOMAIN tab = TabFields /\ DOMAIN tab.stream = {"turn", "emitter", "wire"}

-----------------------------------------------------------------------------
(* What the actions do to the tab, field by field.                         *)

LEMMA CallsAreTyped ==
  ASSUME NEW s \in Scenes
  PROVE  /\ CallsOf(s) \in SUBSET Callings /\ OwnIds(CallsOf(s))
         /\ s.questions \subseteq QueryTexts /\ s.sids \subseteq Sids /\ s.tabs \subseteq Tabs
         /\ s.answers # <<>> /\ s.answers \in Seq(SUBSET AiMessages)
         /\ \A r \in 1..Len(s.answers) : \A msg \in s.answers[r] :
              msg.kind = "ai" /\ msg.calls \in Seq(CallsOf(s))
<1>1. /\ s.answers \in Seq(SUBSET AiMessages) /\ OwnIds(CallsOf(s)) /\ s.answers # <<>>
      /\ s.questions \subseteq QueryTexts /\ s.sids \subseteq Sids /\ s.tabs \subseteq Tabs
  BY ScenesAssumption DEF OwnIds
<1>2. PICK L \in Nat : L = Len(s.answers) /\ DOMAIN s.answers = 1..L
  BY <1>1
<1>3. ASSUME NEW r \in 1..L, NEW msg \in s.answers[r]
      PROVE  /\ msg.kind = "ai" /\ msg.calls \in Seq(Callings) /\ Range(msg.calls) \subseteq CallsOf(s)
             /\ msg.calls \in Seq(CallsOf(s))
  <2>1. msg \in AiMessages
    BY <1>1, <1>2
  <2>2. msg.kind = "ai" /\ msg.calls \in Seq(Callings)
    BY <2>1 DEF AiMessages, Callings
  <2>3. msg \in UNION Range(s.answers)
    BY <1>2 DEF Range
  <2>4. Range(msg.calls) \subseteq CallsOf(s)
    BY <2>3 DEF CallsOf
  <2>5. PICK calls : calls = msg.calls
    OBVIOUS
  <2>6. \A i \in DOMAIN calls : calls[i] \in CallsOf(s)
    BY <2>4, <2>5 DEF Range
  <2>7. PICK m \in Nat : DOMAIN calls = 1..m
    BY <2>2, <2>5
  <2>8. calls \in Seq(CallsOf(s))
    BY <2>2, <2>5, <2>6, <2>7
  <2> QED BY <2>2, <2>4, <2>5, <2>8
<1>4. ASSUME NEW c \in CallsOf(s) PROVE c \in Callings
  <2>1. PICK msg \in UNION Range(s.answers) : c \in Range(msg.calls)
    BY DEF CallsOf
  <2>2. PICK r \in 1..L : msg \in s.answers[r]
    BY <2>1, <1>2 DEF Range
  <2>3. PICK i \in DOMAIN msg.calls : c = msg.calls[i]
    BY <2>1 DEF Range
  <2> QED BY <1>3, <2>2, <2>3
<1> QED BY <1>1, <1>2, <1>3, <1>4

(* The sessions that a tab can name, and a new one, which nothing was kept for. *)
LEMMA IdsAreSids ==
  ASSUME ScreenTyped
  PROVE  /\ Used \subseteq Sids
         /\ \A sid \in GenerateSessionId : sid \in Sids /\ sid \notin Used /\ store[sid] = <<>>
         /\ \A t \in Tabs : Addresses(t) \subseteq Sids
<1>1. Used \subseteq Sids
  <2>1. \A t \in Tabs : screen[t].registry \subseteq Sids
    BY DEF ScreenTyped, TabTyped
  <2>2. UNION {screen[t].registry : t \in Tabs} \subseteq Sids
    BY <2>1
  <2> QED BY <2>2 DEF Used, StoredSids
<1>2. ASSUME NEW sid \in GenerateSessionId PROVE sid \in Sids /\ sid \notin Used /\ store[sid] = <<>>
  <2>1. sid \in scene.sids /\ sid \notin Used
    BY DEF GenerateSessionId
  <2>2. sid \in Sids
    BY <2>1, CallsAreTyped DEF ScreenTyped
  <2> QED BY <2>1, <2>2 DEF Used, StoredSids
<1>3. ASSUME NEW t \in Tabs PROVE Addresses(t) \subseteq Sids
  <2>1. screen[t].sid # "" => screen[t].sid \in Sids
    BY DEF ScreenTyped, TabTyped, ScreenStages
  <2> QED BY <1>1, <1>2, <2>1 DEF Addresses
<1> QED BY <1>1, <1>2, <1>3

(* A tab that opens, or turns to another session, has that session's messages. *)
Turned(t, sid) ==
  LET tab == screen'[t] IN
  /\ Only(t) /\ Shaped(tab)
  /\ tab.stage = "idle" /\ tab.sid = sid /\ tab.messages = store[sid] /\ tab.seen = cleared[sid]
  /\ tab.previews = {} /\ tab.stream = NoStream
  /\ tab.registry \subseteq Sids /\ sid \in tab.registry
  /\ UNCHANGED <<store, cleared, sessions, turns>>

(* Opening a page, a new session and a switch turn the tab to a session. *)
LEMMA TabTurns ==
  ASSUME ScreenTyped, NEW t \in Tabs, OpenTab(t) \/ NewSession(t) \/ SwitchSession(t)
  PROVE  \E sid \in Sids : Turned(t, sid)
<1>0. StoredSids \subseteq Sids
  BY DEF StoredSids
<1>1. CASE OpenTab(t)
  <2>1. PICK sid \in Addresses(t) :
          screen' = [screen EXCEPT ![t] =
             Registered([Blank EXCEPT !.stage = "idle", !.sid = sid, !.messages = LoadMessages(sid),
                                      !.seen = cleared[sid]])]
    BY <1>1 DEF OpenTab
  <2>2. sid \in Sids
    BY IdsAreSids
  <2>3. PICK tab : tab = Registered([Blank EXCEPT !.stage = "idle", !.sid = sid, !.messages = LoadMessages(sid),
                                                  !.seen = cleared[sid]])
    OBVIOUS
  <2>4. /\ Shaped(tab) /\ tab.stage = "idle" /\ tab.sid = sid /\ tab.messages = store[sid] /\ tab.seen = cleared[sid]
        /\ tab.previews = {} /\ tab.stream = NoStream /\ tab.registry = {} \cup {sid} \cup StoredSids
    BY <2>3 DEF Shaped, TabFields, Registered, Blank, NoStream, LoadMessages
  <2>5. Only(t) /\ screen'[t] = tab
    BY <2>1, <2>3 DEF Only, ScreenTyped
  <2> QED BY <1>0, <1>1, <2>2, <2>4, <2>5 DEF Turned, OpenTab
<1>2. CASE NewSession(t)
  <2>1. PICK sid \in GenerateSessionId :
          screen' = [screen EXCEPT ![t] =
             Registered([Reset(screen[t]) EXCEPT !.sid = sid, !.messages = <<>>, !.artifacts = {},
                                                 !.seen = cleared[sid]])]
    BY <1>2 DEF NewSession
  <2>2. sid \in Sids /\ store[sid] = <<>>
    BY IdsAreSids
  <2>3. PICK tab : tab = Registered([Reset(screen[t]) EXCEPT !.sid = sid, !.messages = <<>>, !.artifacts = {},
                                                 !.seen = cleared[sid]])
    OBVIOUS
  <2>0. Shaped(screen[t]) /\ screen[t].registry \subseteq Sids
    BY DEF ScreenTyped, TabTyped, Shaped
  <2>4. /\ Shaped(tab) /\ tab.stage = "idle" /\ tab.sid = sid /\ tab.messages = store[sid] /\ tab.seen = cleared[sid]
        /\ tab.previews = {} /\ tab.stream = NoStream /\ tab.registry = screen[t].registry \cup {sid} \cup StoredSids
    BY <2>0, <2>2, <2>3 DEF Shaped, TabFields, Registered, Reset, NoStream
  <2>5. Only(t) /\ screen'[t] = tab
    BY <2>1, <2>3 DEF Only, ScreenTyped
  <2> QED BY <1>0, <1>2, <2>0, <2>2, <2>4, <2>5 DEF Turned, NewSession
<1>3. CASE SwitchSession(t)
  <2>1. PICK sid \in screen[t].registry :
          screen' = [screen EXCEPT ![t] =
             Registered([Reset(screen[t]) EXCEPT !.sid = sid, !.messages = LoadMessages(sid), !.artifacts = {},
                                                 !.seen = cleared[sid]])]
    BY <1>3 DEF SwitchSession
  <2>3. PICK tab : tab = Registered([Reset(screen[t]) EXCEPT !.sid = sid, !.messages = LoadMessages(sid), !.artifacts = {},
                                                 !.seen = cleared[sid]])
    OBVIOUS
  <2>0. Shaped(screen[t]) /\ screen[t].registry \subseteq Sids
    BY DEF ScreenTyped, TabTyped, Shaped
  <2>4. /\ Shaped(tab) /\ tab.stage = "idle" /\ tab.sid = sid /\ tab.messages = store[sid] /\ tab.seen = cleared[sid]
        /\ tab.previews = {} /\ tab.stream = NoStream /\ tab.registry = screen[t].registry \cup {sid} \cup StoredSids
    BY <2>0, <2>3 DEF Shaped, TabFields, Registered, Reset, NoStream, LoadMessages
  <2>5. Only(t) /\ screen'[t] = tab
    BY <2>1, <2>3 DEF Only, ScreenTyped
  <2> QED BY <1>0, <1>3, <2>0, <2>1, <2>4, <2>5 DEF Turned, SwitchSession
<1> QED BY <1>1, <1>2, <1>3

(* Any other action leaves the tab at its session. *)
Stays(t) ==
  LET tab == screen'[t] IN
  /\ Only(t) /\ Shaped(tab) /\ screen[t].stage # "closed"
  /\ tab.sid = screen[t].sid
  /\ tab.registry \subseteq Sids /\ tab.sid \in tab.registry

Clearing(t) ==
  LET tab == screen'[t]
      sid == screen[t].sid
  IN  /\ Stays(t) /\ tab.seen = cleared[sid] + 1 /\ cleared[sid] < scene.clears
      /\ tab.stage = "idle" /\ tab.messages = <<>> /\ tab.previews = {} /\ tab.stream = NoStream
      /\ store' = [store EXCEPT ![sid] = <<>>]
      /\ cleared' = [cleared EXCEPT ![sid] = cleared[sid] + 1]
      /\ sessions' = [sessions EXCEPT ![sid] = 0] \/ sessions' = sessions
      /\ turns' = turns

Interrupted(t) ==
  LET tab == screen'[t] IN
  /\ Stays(t) /\ tab.seen = screen[t].seen
  /\ tab.stage = "idle" /\ tab.messages = screen[t].messages /\ tab.previews = screen[t].previews
  /\ tab.stream = NoStream
  /\ UNCHANGED <<store, cleared, sessions, turns>>

Prompted(t, moved) ==
  LET tab == screen'[t]
      message == Message("user", screen[t].sid, Len(turns) + 1)
  IN  /\ Stays(t) /\ tab.seen = screen[t].seen
      /\ tab.stage = "posting" /\ tab.prompt = Len(turns) + 1 /\ tab.previews = {} /\ tab.stream = NoStream
      /\ tab.messages = Append(screen[t].messages, message)
      /\ store' = [store EXCEPT ![screen[t].sid] = Append(store[screen[t].sid], message)]
      /\ moved \in TurnsOf(scene) /\ moved.at = "asked" /\ moved.round = 0 /\ turns' = Append(turns, moved)
      /\ UNCHANGED <<cleared, sessions>>

(* What clearing the context does to the tab. *)
LEMMA TabClears ==
  ASSUME ScreenTyped, NEW t \in Tabs, ClearContext(t)
  PROVE  Clearing(t)
<1>1. PICK sid : sid = screen[t].sid
  OBVIOUS
<1>2. PICK tab : tab = Registered([Reset(screen[t]) EXCEPT !.messages = <<>>, !.artifacts = {}, !.seen = cleared[sid] + 1])
  OBVIOUS
<1>3. StoredSids \subseteq Sids
  BY DEF StoredSids
<1>4. Shaped(screen[t]) /\ screen[t].registry \subseteq Sids
  BY DEF ScreenTyped, TabTyped, Shaped
<1>5. /\ Shaped(tab) /\ tab.stage = "idle" /\ tab.sid = sid /\ tab.messages = <<>> /\ tab.seen = cleared[sid] + 1
      /\ tab.previews = {} /\ tab.stream = NoStream /\ tab.registry = screen[t].registry \cup {sid} \cup StoredSids
  BY <1>1, <1>2, <1>4 DEF Shaped, TabFields, Registered, Reset, NoStream
<1>6. screen' = [screen EXCEPT ![t] = tab]
  BY <1>1, <1>2 DEF ClearContext
<1>7. Only(t) /\ screen'[t] = tab
  BY <1>6 DEF Only, ScreenTyped
<1>8. sid \in Sids /\ screen[t].stage # "closed"
  BY <1>1 DEF ClearContext, Clickable, ScreenTyped, TabTyped
<1>9. Stays(t)
  BY <1>1, <1>3, <1>4, <1>5, <1>7, <1>8 DEF Stays
<1> QED BY <1>1, <1>5, <1>7, <1>9 DEF Clearing, ClearContext

(* What a rerun of the page does to a tab that was answering. *)
LEMMA TabIsInterrupted ==
  ASSUME ScreenTyped, NEW t \in Tabs, Interrupt(t)
  PROVE  Interrupted(t)
<1>2. PICK tab : tab = Registered([screen[t] EXCEPT !.stage = "idle", !.answer = FALSE, !.stream = NoStream])
  OBVIOUS
<1>3. StoredSids \subseteq Sids
  BY DEF StoredSids
<1>4. Shaped(screen[t]) /\ screen[t].registry \subseteq Sids
  BY DEF ScreenTyped, TabTyped, Shaped
<1>5. /\ Shaped(tab) /\ tab.stage = "idle" /\ tab.sid = screen[t].sid /\ tab.messages = screen[t].messages
      /\ tab.seen = screen[t].seen
      /\ tab.previews = screen[t].previews /\ tab.stream = NoStream
      /\ tab.registry = screen[t].registry \cup {screen[t].sid} \cup StoredSids
  BY <1>2, <1>4 DEF Shaped, TabFields, Registered, NoStream
<1>6. screen' = [screen EXCEPT ![t] = tab]
  BY <1>2 DEF Interrupt
<1>7. Only(t) /\ screen'[t] = tab
  BY <1>6 DEF Only, ScreenTyped
<1>8. screen[t].sid \in Sids /\ screen[t].stage # "closed"
  BY DEF Interrupt, ScreenTyped, TabTyped
<1>9. Stays(t)
  BY <1>3, <1>4, <1>5, <1>7, <1>8 DEF Stays
<1> QED BY <1>5, <1>7, <1>9 DEF Interrupted, Interrupt

(* What a prompt does to the tab, to its session and to the turns. *)
LEMMA TabPrompts ==
  ASSUME ScreenTyped, NEW t \in Tabs, NEW question \in scene.questions, NEW widgets \in scene.panels,
         Prompt(t, question, widgets)
  PROVE  \E moved : Prompted(t, moved)
<1>1. PICK moved : moved = [at |-> "asked", question |-> question, settings |-> SettingsPanel(widgets),
                          tools |-> ResolveTools(SettingsPanel(widgets).tools),
                          answers |-> {}, calls |-> <<>>, round |-> 0]
  OBVIOUS
<1>2. moved \in TurnsOf(scene) /\ moved.at = "asked" /\ moved.round = 0
  <2>1. ResolveTools(SettingsPanel(widgets).tools) \in SUBSET Tools
    BY DEF ResolveTools
  <2>2. SettingsPanel(widgets) \in {SettingsPanel(w) : w \in scene.panels}
    OBVIOUS
  <2>3. <<>> \in Seq(CallsOf(scene)) /\ {} \in SUBSET ToolAnswers(CallsOf(scene)) /\ 0 \in Nat
    OBVIOUS
  <2> QED BY <1>1, <2>1, <2>2, <2>3 DEF TurnsOf
<1>3. PICK message : message = Message("user", screen[t].sid, Len(turns) + 1)
  OBVIOUS
<1>4. PICK old : old = [Registered(Reset(screen[t])) EXCEPT !.stage = "posting", !.prompt = Len(turns) + 1]
  OBVIOUS
<1>5. AddMessage(t, old, message) /\ turns' = Append(turns, moved)
  BY <1>1, <1>3, <1>4 DEF Prompt
<1>6. Shaped(screen[t]) /\ screen[t].registry \subseteq Sids
  BY DEF ScreenTyped, TabTyped, Shaped
<1>7. /\ Shaped(old) /\ old.stage = "posting" /\ old.sid = screen[t].sid /\ old.messages = screen[t].messages
      /\ old.seen = screen[t].seen /\ old.prompt = Len(turns) + 1
      /\ old.previews = {} /\ old.stream = NoStream
      /\ old.registry = screen[t].registry \cup {screen[t].sid} \cup StoredSids
  BY <1>4, <1>6 DEF Shaped, TabFields, Registered, Reset, NoStream
<1>8. PICK tab : tab = [old EXCEPT !.messages = Append(old.messages, message)]
  OBVIOUS
<1>9. /\ Shaped(tab) /\ tab.stage = "posting" /\ tab.sid = screen[t].sid
      /\ tab.messages = Append(screen[t].messages, message)
      /\ tab.seen = screen[t].seen /\ tab.prompt = Len(turns) + 1
      /\ tab.previews = {} /\ tab.stream = NoStream
      /\ tab.registry = screen[t].registry \cup {screen[t].sid} \cup StoredSids
  BY <1>7, <1>8 DEF Shaped, TabFields
<1>10. screen' = [screen EXCEPT ![t] = tab] /\ store' = [store EXCEPT ![screen[t].sid] = Append(store[screen[t].sid], message)]
  BY <1>5, <1>7, <1>8 DEF AddMessage
<1>11. Only(t) /\ screen'[t] = tab
  BY <1>10 DEF Only, ScreenTyped
<1>12. StoredSids \subseteq Sids
  BY DEF StoredSids
<1>13. screen[t].sid \in Sids /\ screen[t].stage # "closed"
  BY DEF Prompt, Clickable, ScreenTyped, TabTyped
<1>14. Stays(t)
  BY <1>6, <1>9, <1>11, <1>12, <1>13 DEF Stays
<1> QED BY <1>2, <1>3, <1>5, <1>9, <1>10, <1>11, <1>14 DEF Prompted, Prompt

Reads(t) ==
  LET tab == screen'[t] IN
  /\ Stays(t) /\ tab.seen = screen[t].seen /\ tab.prompt = screen[t].prompt
  /\ UNCHANGED <<store, cleared>>
  /\ tab.messages = screen[t].messages

Posted(t) ==
  LET tab == screen'[t]
      sid == screen[t].sid
      n == screen[t].prompt
  IN  /\ Reads(t) /\ screen[t].stage = "posting"
      /\ tab.previews = screen[t].previews /\ tab.stream = screen[t].stream
      /\ \/ /\ tab.stage = "connecting" /\ sessions' = [sessions EXCEPT ![sid] = n]
            /\ turns' = [turns EXCEPT ![n].at = "planner"]
         \/ tab.stage = "idle" /\ UNCHANGED <<sessions, turns>>

Connected(t) ==
  LET tab == screen'[t]
      moved == sessions[screen[t].sid]
  IN  /\ Reads(t) /\ screen[t].stage = "connecting" /\ moved # 0
      /\ tab.stage = "streaming" /\ tab.previews = screen[t].previews
      /\ tab.stream.turn = moved /\ tab.stream.emitter = Emitter(turns[moved].question)
      /\ tab.stream.wire = <<>>
      /\ UNCHANGED <<sessions, turns>>

(* What POST /chat does to the tab. *)
LEMMA TabPosts ==
  ASSUME ScreenTyped, NEW t \in Tabs, Post(t)
  PROVE  Posted(t)
<1>1. screen[t].stage = "posting" /\ UNCHANGED <<store, cleared>>
  BY DEF Post
<1>2. /\ Shaped(screen[t]) /\ screen[t].registry \subseteq Sids
      /\ screen[t].sid \in screen[t].registry
  BY <1>1 DEF ScreenTyped, TabTyped, Shaped
<1>3. ASSUME NEW stage, screen' = [screen EXCEPT ![t].stage = stage]
      PROVE  /\ Reads(t) /\ screen'[t].stage = stage
             /\ screen'[t].previews = screen[t].previews /\ screen'[t].stream = screen[t].stream
  <2>1. PICK tab : tab = [screen[t] EXCEPT !.stage = stage]
    OBVIOUS
  <2>2. Only(t) /\ screen'[t] = tab
    BY <1>3, <2>1 DEF Only, ScreenTyped
  <2>3. /\ Shaped(tab) /\ tab.stage = stage /\ tab.sid = screen[t].sid /\ tab.messages = screen[t].messages
        /\ tab.seen = screen[t].seen /\ tab.prompt = screen[t].prompt
        /\ tab.previews = screen[t].previews /\ tab.stream = screen[t].stream
        /\ tab.registry = screen[t].registry
    BY <1>2, <2>1 DEF Shaped, TabFields
  <2> QED BY <1>1, <1>2, <2>2, <2>3 DEF Stays, Reads
<1>4. CASE screen' = [screen EXCEPT ![t].stage = "connecting"]
           /\ sessions' = [sessions EXCEPT ![screen[t].sid] = screen[t].prompt]
           /\ turns' = [turns EXCEPT ![screen[t].prompt].at = "planner"]
  BY <1>1, <1>3, <1>4 DEF Posted
<1>5. CASE screen' = [screen EXCEPT ![t].stage = "idle"] /\ UNCHANGED <<sessions, turns>>
  BY <1>1, <1>3, <1>5 DEF Posted
<1> QED BY <1>4, <1>5 DEF Post

(* What opening the stream does to the tab, and to its turn. *)
LEMMA TabConnects ==
  ASSUME ScreenTyped, NEW t \in Tabs, Connect(t)
  PROVE  Connected(t)
<1>1. screen[t].stage = "connecting" /\ UNCHANGED <<store, cleared, sessions, turns>> /\ sessions[screen[t].sid] # 0
  BY DEF Connect
<1>2. /\ Shaped(screen[t]) /\ screen[t].registry \subseteq Sids
      /\ screen[t].sid \in screen[t].registry
  BY <1>1 DEF ScreenTyped, TabTyped, Shaped
<1>3. PICK stream : stream = [turn |-> sessions[screen[t].sid],
                              emitter |-> Emitter(turns[sessions[screen[t].sid]].question), wire |-> <<>>]
  OBVIOUS
<1>4. screen' = [screen EXCEPT ![t].stage = "streaming", ![t].stream = stream]
  BY <1>3 DEF Connect
<1>5. PICK tab : tab = [screen[t] EXCEPT !.stage = "streaming", !.stream = stream]
  OBVIOUS
<1>6. Only(t) /\ screen'[t] = tab
  BY <1>4, <1>5 DEF Only, ScreenTyped
<1>7. DOMAIN stream = {"turn", "emitter", "wire"}
  BY <1>3
<1>8. /\ Shaped(tab) /\ tab.stage = "streaming" /\ tab.sid = screen[t].sid /\ tab.messages = screen[t].messages
      /\ tab.seen = screen[t].seen /\ tab.prompt = screen[t].prompt
      /\ tab.previews = screen[t].previews /\ tab.stream = stream
      /\ tab.registry = screen[t].registry
  BY <1>2, <1>5, <1>7 DEF Shaped, TabFields
<1>9. Reads(t)
  BY <1>1, <1>2, <1>6, <1>8 DEF Stays, Reads
<1> QED BY <1>1, <1>3, <1>6, <1>8, <1>9 DEF Connected

(* The turns are a list, each as the code has it. *)
LEMMA TurnsListed ==
  ASSUME ScreenTyped
  PROVE  Len(turns) \in Nat /\ DOMAIN turns = 1..Len(turns) /\ \A n \in DOMAIN turns : turns[n] \in TurnsOf(scene)
<1>1. turns \in Seq(TurnsOf(scene))
  BY DEF ScreenTyped
<1> QED BY <1>1

Advanced(n, moved) ==
  /\ n \in DOMAIN turns /\ turns[n].at # "asked"
  /\ moved \in TurnsOf(scene) /\ moved.at # "asked"
  /\ moved.at \in {"planner", "tools"} => moved.round < Len(scene.answers)
  /\ turns' = [turns EXCEPT ![n] = moved]

Taken(t, messages) ==
  LET tab == screen'[t]
      stream == screen[t].stream
  IN  /\ Reads(t) /\ screen[t].stage = "streaming" /\ stream.wire = <<>>
      /\ tab.stage = "streaming" /\ tab.previews = screen[t].previews
      /\ tab.stream.turn = stream.turn
      /\ tab.stream.emitter = EmitAll(stream.emitter, messages).emitter
      /\ tab.stream.wire = EmitAll(stream.emitter, messages).events
      /\ \E moved : Advanced(stream.turn, moved)
      /\ UNCHANGED sessions

(* The chunks of a graph: an answer of the planner, of the tools, or the
   documents. *)
ChunkOf(C, messages) ==
  \/ \E msg : messages = <<msg>> /\ msg.kind = "ai" /\ msg.calls \in Seq(C)
  \/ messages \in Seq(ToolAnswers(C))
  \/ \E some \in BOOLEAN : messages = <<RetrievedDocs(some)>>

(* What a chunk of the graph does to the tab that it is streamed to. *)
LEMMA TabTakes ==
  ASSUME ScreenTyped, NEW t \in Tabs, NEW at, NEW messages, NEW moved,
         Ready(t, at), at # "asked", Take(t, messages, moved),
         moved \in TurnsOf(scene), moved.at # "asked",
         moved.at \in {"planner", "tools"} => moved.round < Len(scene.answers)
  PROVE  Taken(t, messages)
<1>1. /\ screen[t].stage = "streaming" /\ screen[t].stream.wire = <<>>
      /\ turns[screen[t].stream.turn].at # "asked"
  BY DEF Ready
<1>2. /\ Shaped(screen[t]) /\ screen[t].registry \subseteq Sids
      /\ screen[t].sid \in screen[t].registry /\ screen[t].stream.turn \in DOMAIN turns
  <2>1. screen[t].stream.turn \in 1..Len(turns)
    BY <1>1 DEF ScreenTyped, TabTyped
  <2> QED BY <1>1, <2>1, TurnsListed DEF ScreenTyped, TabTyped, Shaped
<1>3. PICK made : made = EmitAll(screen[t].stream.emitter, messages)
  OBVIOUS
<1>4. PICK stream : stream = [screen[t].stream EXCEPT !.emitter = made.emitter, !.wire = made.events]
  OBVIOUS
<1>5. /\ DOMAIN stream = {"turn", "emitter", "wire"} /\ stream.turn = screen[t].stream.turn
      /\ stream.emitter = made.emitter /\ stream.wire = made.events
  BY <1>2, <1>4 DEF Shaped
<1>6. PICK tab : tab = [screen[t] EXCEPT !.stream = stream]
  OBVIOUS
<1>7. screen' = [screen EXCEPT ![t].stream = stream]
  BY <1>3, <1>4 DEF Take
<1>8. Only(t) /\ screen'[t] = tab
  BY <1>6, <1>7 DEF Only, ScreenTyped
<1>9. /\ Shaped(tab) /\ tab.stage = screen[t].stage /\ tab.sid = screen[t].sid /\ tab.messages = screen[t].messages
      /\ tab.seen = screen[t].seen /\ tab.prompt = screen[t].prompt
      /\ tab.previews = screen[t].previews /\ tab.stream = stream
      /\ tab.registry = screen[t].registry
  BY <1>2, <1>5, <1>6 DEF Shaped, TabFields
<1>10. Reads(t)
  BY <1>1, <1>2, <1>8, <1>9 DEF Stays, Reads, Take
<1>11. Advanced(screen[t].stream.turn, moved)
  BY <1>1, <1>2 DEF Advanced, Take
<1>12. UNCHANGED sessions
  BY DEF Take
<1> QED BY <1>1, <1>3, <1>5, <1>8, <1>9, <1>10, <1>11, <1>12 DEF Taken

(* The planner's chunk: one message of the model, of its round. *)
LEMMA PlannerTakes ==
  ASSUME ScreenTyped, NEW t \in Tabs, PlannerChunk(t)
  PROVE  \E messages : Taken(t, messages) /\ ChunkOf(CallsOf(scene), messages)
<1>1. Ready(t, "planner")
  BY DEF PlannerChunk
<1>2. PICK n, moved : n = screen[t].stream.turn /\ moved = turns[n]
  OBVIOUS
<1>3. n \in DOMAIN turns /\ moved \in TurnsOf(scene) /\ moved.at = "planner" /\ moved.round < Len(scene.answers)
  <2>1. n \in 1..Len(turns) /\ moved.at = "planner"
    BY <1>1, <1>2 DEF Ready, ScreenTyped, TabTyped
  <2>2. n \in DOMAIN turns
    BY <2>1, TurnsListed
  <2> QED BY <1>2, <2>1, <2>2, TurnsListed DEF ScreenTyped
<1>4. PICK msg, next :
        /\ msg \in scene.answers[moved.round + 1]
        /\ next = IF moved.round + 1 = Len(scene.answers) THEN "end"
                  ELSE IF msg.calls # <<>> /\ moved.tools # {} THEN "tools" ELSE "answer"
        /\ Take(t, <<msg>>, [moved EXCEPT !.at = next, !.round = moved.round + 1, !.calls = msg.calls])
  BY <1>2 DEF PlannerChunk
<1>5. PICK L \in Nat : L = Len(scene.answers)
  <2>1. PICK answers : answers = scene.answers
    OBVIOUS
  <2>2. answers \in Seq(SUBSET AiMessages)
    BY <2>1, CallsAreTyped DEF ScreenTyped
  <2>3. Len(answers) \in Nat
    BY <2>2
  <2> QED BY <2>1, <2>3
<1>6. moved.round \in Nat /\ moved.round + 1 \in 1..L
  BY <1>3, <1>5 DEF TurnsOf
<1>7. msg.kind = "ai" /\ msg.calls \in Seq(CallsOf(scene))
  BY <1>4, <1>5, <1>6, CallsAreTyped DEF ScreenTyped
<1>8. PICK now : now = [moved EXCEPT !.at = next, !.round = moved.round + 1, !.calls = msg.calls]
  OBVIOUS
<1>9. next \in {"end", "tools", "answer"} /\ (next \in {"tools"} => moved.round + 1 # L)
  BY <1>4, <1>5
<1>10. now \in TurnsOf(scene) /\ now.at = next /\ now.round = moved.round + 1
  <2>1. PICK first : first = [moved EXCEPT !.at = next]
    OBVIOUS
  <2>2. first \in TurnsOf(scene) /\ first.at = next
    BY <1>3, <1>9, <2>1 DEF TurnsOf
  <2>3. PICK second : second = [first EXCEPT !.round = moved.round + 1]
    OBVIOUS
  <2>4. second \in TurnsOf(scene) /\ second.at = next /\ second.round = moved.round + 1
    BY <1>6, <2>2, <2>3 DEF TurnsOf
  <2>5. PICK third : third = [second EXCEPT !.calls = msg.calls]
    OBVIOUS
  <2>6. third \in TurnsOf(scene) /\ third.at = next /\ third.round = moved.round + 1
    BY <1>7, <2>4, <2>5 DEF TurnsOf
  <2>7. now = third
    BY <1>8, <2>1, <2>3, <2>5
  <2> QED BY <2>6, <2>7
<1>11. now.at # "asked" /\ (now.at \in {"planner", "tools"} => now.round < Len(scene.answers))
  BY <1>5, <1>6, <1>9, <1>10
<1>12. Taken(t, <<msg>>)
  BY <1>1, <1>4, <1>8, <1>10, <1>11, TabTakes
<1>13. ChunkOf(CallsOf(scene), <<msg>>)
  BY <1>7 DEF ChunkOf
<1> QED BY <1>12, <1>13

(* The tools' chunk: a message for every call of the round before. *)
LEMMA ToolsTake ==
  ASSUME ScreenTyped, NEW t \in Tabs, ToolsChunk(t)
  PROVE  \E messages : Taken(t, messages) /\ ChunkOf(CallsOf(scene), messages)
<1>1. Ready(t, "tools")
  BY DEF ToolsChunk
<1>2. PICK n, moved : n = screen[t].stream.turn /\ moved = turns[n]
  OBVIOUS
<1>3. n \in DOMAIN turns /\ moved \in TurnsOf(scene) /\ moved.at = "tools" /\ moved.round < Len(scene.answers)
  <2>1. n \in 1..Len(turns) /\ moved.at = "tools"
    BY <1>1, <1>2 DEF Ready, ScreenTyped, TabTyped
  <2>2. n \in DOMAIN turns
    BY <2>1, TurnsListed
  <2> QED BY <1>2, <2>1, <2>2, TurnsListed DEF ScreenTyped
<1>4. PICK shapes, answers :
        /\ shapes \in [DOMAIN moved.calls -> UNION {Shapes(tool) : tool \in Tools}]
        /\ answers = [i \in DOMAIN moved.calls |-> ToolMessage(moved.calls[i], shapes[i])]
        /\ Take(t, answers, [moved EXCEPT !.at = "planner", !.answers = moved.answers \cup Range(answers)])
  BY <1>2 DEF ToolsChunk
<1>5. PICK C : C = CallsOf(scene)
  OBVIOUS
<1>6. moved.calls \in Seq(C)
  BY <1>3, <1>5 DEF TurnsOf
<1>7. UNION {Shapes(tool) : tool \in Tools} \subseteq AnyShape
  BY DEF Shapes, Tools, AnyShape
<1>8. \A i \in DOMAIN moved.calls : ToolMessage(moved.calls[i], shapes[i]) \in ToolAnswers(C)
  BY <1>4, <1>6, <1>7 DEF ToolAnswers
<1>9. answers \in Seq(ToolAnswers(C))
  <2>1. PICK m \in Nat : DOMAIN moved.calls = 1..m
    BY <1>6
  <2> QED BY <1>4, <1>8, <2>1
<1>10. PICK now : now = [moved EXCEPT !.at = "planner", !.answers = moved.answers \cup Range(answers)]
  OBVIOUS
<1>11. Range(answers) \subseteq ToolAnswers(C)
  BY <1>9 DEF Range
<1>12. now \in TurnsOf(scene) /\ now.at = "planner" /\ now.round = moved.round
  BY <1>3, <1>5, <1>10, <1>11 DEF TurnsOf
<1>13. Taken(t, answers)
  BY <1>1, <1>3, <1>4, <1>10, <1>12, TabTakes
<1>14. ChunkOf(C, answers)
  BY <1>9 DEF ChunkOf
<1> QED BY <1>5, <1>13, <1>14

(* The retriever's chunk: documents, or none. *)
LEMMA DocsTake ==
  ASSUME ScreenTyped, NEW t \in Tabs, DocsChunk(t)
  PROVE  \E messages : Taken(t, messages) /\ ChunkOf(CallsOf(scene), messages)
<1>1. Ready(t, "answer")
  BY DEF DocsChunk
<1>2. PICK n, moved : n = screen[t].stream.turn /\ moved = turns[n]
  OBVIOUS
<1>3. n \in DOMAIN turns /\ moved \in TurnsOf(scene)
  <2>1. n \in 1..Len(turns)
    BY <1>1, <1>2 DEF Ready, ScreenTyped, TabTyped
  <2>2. n \in DOMAIN turns
    BY <2>1, TurnsListed
  <2> QED BY <1>2, <2>1, <2>2, TurnsListed DEF ScreenTyped
<1>4. PICK some \in BOOLEAN : Take(t, <<RetrievedDocs(some)>>, [moved EXCEPT !.at = "end"])
  BY <1>2 DEF DocsChunk
<1>5. PICK now : now = [moved EXCEPT !.at = "end"]
  OBVIOUS
<1>6. now \in TurnsOf(scene) /\ now.at = "end"
  BY <1>3, <1>5 DEF TurnsOf
<1>7. Taken(t, <<RetrievedDocs(some)>>)
  BY <1>1, <1>4, <1>5, <1>6, TabTakes
<1>8. ChunkOf(CallsOf(scene), <<RetrievedDocs(some)>>)
  BY DEF ChunkOf
<1> QED BY <1>7, <1>8

(* The client's side. *)
Received(t) ==
  LET tab == screen'[t]
      stream == screen[t].stream
      event == Head(stream.wire)
  IN  /\ Reads(t) /\ screen[t].stage = "streaming" /\ stream.wire # <<>>
      /\ tab.stage = "streaming"
      /\ tab.stream.turn = stream.turn /\ tab.stream.emitter = stream.emitter
      /\ tab.stream.wire = Tail(stream.wire)
      /\ tab.previews = IF event.type = "token" \/ event.type = "artifact_ready" THEN screen[t].previews
                        ELSE HandleToolEvent(screen[t].previews, event)
      /\ UNCHANGED <<sessions, turns>>

(* What the next event of the stream does to the tab. *)
LEMMA TabReceives ==
  ASSUME ScreenTyped, NEW t \in Tabs, Receive(t)
  PROVE  Received(t)
<1>1. /\ screen[t].stage = "streaming" /\ screen[t].stream.wire # <<>>
      /\ UNCHANGED <<store, cleared, sessions, turns>>
  BY DEF Receive
<1>2. /\ Shaped(screen[t]) /\ screen[t].registry \subseteq Sids
      /\ screen[t].sid \in screen[t].registry
  BY <1>1 DEF ScreenTyped, TabTyped, Shaped
<1>3. PICK event : event = Head(screen[t].stream.wire)
  OBVIOUS
<1>4. PICK previews, some :
        /\ previews = IF event.type = "token" \/ event.type = "artifact_ready" THEN screen[t].previews
                      ELSE HandleToolEvent(screen[t].previews, event)
        /\ some = (screen[t].answer \/ event.type = "token")
  OBVIOUS
<1>5. PICK stream : stream = [screen[t].stream EXCEPT !.wire = Tail(screen[t].stream.wire)]
  OBVIOUS
<1>6. /\ DOMAIN stream = {"turn", "emitter", "wire"} /\ stream.turn = screen[t].stream.turn
      /\ stream.emitter = screen[t].stream.emitter /\ stream.wire = Tail(screen[t].stream.wire)
  BY <1>2, <1>5 DEF Shaped
<1>7. PICK tab : tab = [screen[t] EXCEPT !.stream.wire = Tail(screen[t].stream.wire), !.answer = some, !.previews = previews]
  OBVIOUS
<1>8. screen' = [screen EXCEPT ![t].stream.wire = Tail(screen[t].stream.wire), ![t].answer = some, ![t].previews = previews]
  BY <1>3, <1>4 DEF Receive
<1>9. Only(t) /\ screen'[t] = tab
  BY <1>7, <1>8 DEF Only, ScreenTyped
<1>10. /\ Shaped(tab) /\ tab.stage = screen[t].stage /\ tab.sid = screen[t].sid /\ tab.messages = screen[t].messages
       /\ tab.seen = screen[t].seen /\ tab.prompt = screen[t].prompt
       /\ tab.previews = previews /\ tab.stream = stream
       /\ tab.registry = screen[t].registry
  BY <1>2, <1>5, <1>6, <1>7 DEF Shaped, TabFields
<1>11. Reads(t)
  BY <1>1, <1>2, <1>9, <1>10 DEF Stays, Reads
<1> QED BY <1>1, <1>3, <1>4, <1>6, <1>9, <1>10, <1>11 DEF Received

TurnOver(t) ==
  LET tab == screen'[t]
      sid == screen[t].sid
      message == Message("assistant", sid, screen[t].prompt)
  IN  /\ Stays(t) /\ tab.seen = screen[t].seen
      /\ screen[t].stage \in {"connecting", "streaming"}
      /\ tab.stage = "idle" /\ tab.previews = screen[t].previews /\ tab.stream = NoStream
      /\ \/ /\ store' = [store EXCEPT ![sid] = Append(store[sid], message)]
            /\ tab.messages = Append(screen[t].messages, message)
         \/ store' = store /\ tab.messages = screen[t].messages
      /\ turns' = turns \/ \E n, moved : Advanced(n, moved)
      /\ UNCHANGED <<cleared, sessions>>

(* What the end of the stream, or its breaking, does to the tab. *)
LEMMA TabFinishes ==
  ASSUME ScreenTyped, NEW t \in Tabs, EndStream(t) \/ BreakStream(t)
  PROVE  TurnOver(t)
<1>1. screen[t].stage \in {"connecting", "streaming"} /\ Finish(t)
  BY DEF EndStream, BreakStream, Ready
<1>2. /\ Shaped(screen[t]) /\ screen[t].registry \subseteq Sids
      /\ screen[t].sid \in screen[t].registry
  BY <1>1 DEF ScreenTyped, TabTyped, Shaped
<1>3. PICK artifacts : artifacts = IF arrived # {} THEN arrived ELSE screen[t].artifacts
  OBVIOUS
<1>4. PICK tab : tab = [screen[t] EXCEPT !.stage = "idle", !.answer = FALSE, !.stream = NoStream, !.artifacts = artifacts]
  OBVIOUS
<1>5. DOMAIN NoStream = {"turn", "emitter", "wire"}
  BY DEF NoStream
<1>6. /\ Shaped(tab) /\ tab.stage = "idle" /\ tab.sid = screen[t].sid /\ tab.messages = screen[t].messages
      /\ tab.seen = screen[t].seen /\ tab.prompt = screen[t].prompt
      /\ tab.previews = screen[t].previews /\ tab.stream = NoStream
      /\ tab.registry = screen[t].registry
  BY <1>2, <1>4, <1>5 DEF Shaped, TabFields
<1>7. PICK message : message = Message("assistant", tab.sid, tab.prompt)
  OBVIOUS
<1>8. \/ AddMessage(t, tab, message) /\ UNCHANGED <<cleared, sessions>>
      \/ screen' = [screen EXCEPT ![t] = tab] /\ UNCHANGED <<store, cleared, sessions>>
  BY <1>1, <1>3, <1>4, <1>7 DEF Finish
<1>9. turns' = turns \/ \E n, moved : Advanced(n, moved)
  <2>1. CASE BreakStream(t)
    BY <2>1 DEF BreakStream
  <2>2. CASE EndStream(t)
    <3>1. PICK n, moved : n = screen[t].stream.turn /\ moved = [turns[n] EXCEPT !.at = "over", !.answers = {}, !.calls = <<>>]
      OBVIOUS
    <3>2. turns' = [turns EXCEPT ![n] = moved] /\ screen[t].stage = "streaming" /\ turns[n].at # "asked"
      BY <2>2, <3>1 DEF EndStream, Ready
    <3>3. n \in DOMAIN turns /\ turns[n] \in TurnsOf(scene)
      <4>1. n \in 1..Len(turns)
        BY <3>1, <3>2 DEF ScreenTyped, TabTyped
      <4> QED BY <4>1, TurnsListed
    <3>4. <<>> \in Seq(CallsOf(scene)) /\ {} \in SUBSET ToolAnswers(CallsOf(scene))
      OBVIOUS
    <3>5. PICK first : first = [turns[n] EXCEPT !.at = "over"]
      OBVIOUS
    <3>6. first \in TurnsOf(scene) /\ first.at = "over"
      BY <3>3, <3>5 DEF TurnsOf
    <3>7. PICK second : second = [first EXCEPT !.answers = {}]
      OBVIOUS
    <3>8. second \in TurnsOf(scene) /\ second.at = "over"
      BY <3>4, <3>6, <3>7 DEF TurnsOf
    <3>9. PICK third : third = [second EXCEPT !.calls = <<>>]
      OBVIOUS
    <3>10. third \in TurnsOf(scene) /\ third.at = "over"
      BY <3>4, <3>8, <3>9 DEF TurnsOf
    <3>11. moved = third
      BY <3>1, <3>5, <3>7, <3>9
    <3>12. Advanced(n, moved)
      BY <3>2, <3>3, <3>10, <3>11 DEF Advanced
    <3> QED BY <3>12
  <2> QED BY <2>1, <2>2
<1>10. CASE screen' = [screen EXCEPT ![t] = tab] /\ UNCHANGED <<store, cleared, sessions>>
  <2>1. Only(t) /\ screen'[t] = tab
    BY <1>10 DEF Only, ScreenTyped
  <2>2. Stays(t)
    BY <1>1, <1>2, <1>6, <2>1 DEF Stays
  <2> QED BY <1>1, <1>6, <1>9, <1>10, <2>1, <2>2 DEF TurnOver
<1>11. CASE AddMessage(t, tab, message) /\ UNCHANGED <<cleared, sessions>>
  <2>1. PICK new : new = [tab EXCEPT !.messages = Append(tab.messages, message)]
    OBVIOUS
  <2>2. screen' = [screen EXCEPT ![t] = new] /\ store' = [store EXCEPT ![tab.sid] = Append(store[tab.sid], message)]
    BY <1>11, <2>1 DEF AddMessage
  <2>3. /\ Shaped(new) /\ new.stage = "idle" /\ new.sid = screen[t].sid
        /\ new.messages = Append(screen[t].messages, message)
        /\ new.seen = screen[t].seen /\ new.prompt = screen[t].prompt
        /\ new.previews = screen[t].previews /\ new.stream = NoStream
        /\ new.registry = screen[t].registry
    BY <1>6, <2>1 DEF Shaped, TabFields
  <2>4. Only(t) /\ screen'[t] = new
    BY <2>2 DEF Only, ScreenTyped
  <2>5. Stays(t)
    BY <1>1, <1>2, <2>3, <2>4 DEF Stays
  <2>6. message = Message("assistant", screen[t].sid, screen[t].prompt) /\ tab.sid = screen[t].sid
    BY <1>6, <1>7
  <2> QED BY <1>1, <1>9, <1>11, <2>2, <2>3, <2>4, <2>5, <2>6 DEF TurnOver
<1> QED BY <1>8, <1>10, <1>11

(* Every step of the page is one of these. *)
LEMMA StepsOfScreen ==
  ASSUME ScreenTyped, ScreenNext
  PROVE  /\ scene' = scene
         /\ \E t \in Tabs :
              \/ \E sid \in Sids : Turned(t, sid)
              \/ Clearing(t)
              \/ Interrupted(t)
              \/ \E moved : Prompted(t, moved)
              \/ Posted(t)
              \/ Connected(t)
              \/ \E messages : Taken(t, messages) /\ ChunkOf(CallsOf(scene), messages)
              \/ Received(t)
              \/ TurnOver(t)
<1>1. scene' = scene
  BY DEF ScreenNext
<1>2. PICK t \in Tabs :
          \/ OpenTab(t) \/ NewSession(t) \/ SwitchSession(t) \/ ClearContext(t) \/ Interrupt(t)
          \/ \E question \in scene.questions, widgets \in scene.panels : Prompt(t, question, widgets)
          \/ Post(t) \/ Connect(t)
          \/ PlannerChunk(t) \/ ToolsChunk(t) \/ DocsChunk(t)
          \/ Receive(t) \/ EndStream(t) \/ BreakStream(t)
  BY CallsAreTyped DEF ScreenNext, ScreenTyped
<1>3. OpenTab(t) \/ NewSession(t) \/ SwitchSession(t) => \E sid \in Sids : Turned(t, sid)
  BY TabTurns
<1>4. ClearContext(t) => Clearing(t)
  BY TabClears
<1>5. Interrupt(t) => Interrupted(t)
  BY TabIsInterrupted
<1>6. (\E question \in scene.questions, widgets \in scene.panels : Prompt(t, question, widgets)) => \E moved : Prompted(t, moved)
  BY TabPrompts
<1>7. (Post(t) => Posted(t)) /\ (Connect(t) => Connected(t)) /\ (Receive(t) => Received(t))
  BY TabPosts, TabConnects, TabReceives
<1>8. PlannerChunk(t) \/ ToolsChunk(t) \/ DocsChunk(t)
        => \E messages : Taken(t, messages) /\ ChunkOf(CallsOf(scene), messages)
  BY PlannerTakes, ToolsTake, DocsTake
<1>9. EndStream(t) \/ BreakStream(t) => TurnOver(t)
  BY TabFinishes
<1> QED BY <1>1, <1>2, <1>3, <1>4, <1>5, <1>6, <1>7, <1>8, <1>9, Zenon

-----------------------------------------------------------------------------
(* The screen: types, and turns apart.                                     *)

(* How the list of turns may change. *)
Launches(n) == n \in 1..Len(turns) /\ turns[n].at = "asked" /\ turns' = [turns EXCEPT ![n].at = "planner"]
TurnAsked(moved) == moved \in TurnsOf(scene) /\ moved.at = "asked" /\ moved.round = 0 /\ turns' = Append(turns, moved)

RoundsLeft == \A n \in DOMAIN turns :
                turns[n].at \in {"asked", "planner", "tools"} => turns[n].round < Len(scene.answers)

(* However the list of turns changes, it stays one of turns. *)
LEMMA TurnsKept ==
  ASSUME ScreenTyped, scene' = scene,
         \/ turns' = turns
         \/ \E moved : TurnAsked(moved)
         \/ \E n : Launches(n)
         \/ \E n, moved : Advanced(n, moved)
  PROVE  /\ turns' \in Seq(TurnsOf(scene)) /\ RoundsLeft'
         /\ Len(turns') \in Nat /\ Len(turns) <= Len(turns')
         /\ \A k \in 1..Len(turns) : turns[k].at = "asked" => turns'[k].at = "asked" \/ Launches(k)
         /\ \A moved : TurnAsked(moved) => turns'[Len(turns) + 1].at = "asked" /\ Len(turns') = Len(turns) + 1
<1>1. PICK N \in Nat : N = Len(turns) /\ DOMAIN turns = 1..N
  BY TurnsListed
<1>2. turns \in Seq(TurnsOf(scene)) /\ RoundsLeft
  BY DEF ScreenTyped, RoundsLeft
<1>3. PICK L \in Nat : L = Len(scene.answers) /\ 0 < L
  BY CallsAreTyped DEF ScreenTyped
<1>4. CASE turns' = turns
  <2>1. RoundsLeft'
    BY <1>2, <1>4 DEF RoundsLeft
  <2>2. \A moved : ~ TurnAsked(moved)
    <3>1. ASSUME NEW moved, TurnAsked(moved) PROVE FALSE
      <4>1. Len(Append(turns, moved)) = N + 1
        BY <1>1, <1>2, <3>1 DEF TurnAsked
      <4> QED BY <1>1, <1>4, <3>1, <4>1 DEF TurnAsked
    <3> QED BY <3>1
  <2> QED BY <1>1, <1>2, <1>4, <2>1, <2>2
<1>5. ASSUME NEW moved, TurnAsked(moved)
      PROVE  /\ turns' \in Seq(TurnsOf(scene)) /\ RoundsLeft'
             /\ Len(turns') = N + 1 /\ turns'[N + 1].at = "asked"
             /\ \A k \in 1..N : turns'[k] = turns[k]
  <2>1. PICK s : s = Append(turns, moved)
    OBVIOUS
  <2>2. /\ s \in Seq(TurnsOf(scene)) /\ Len(s) = N + 1 /\ DOMAIN s = 1..(N + 1) /\ s[N + 1] = moved
        /\ \A k \in 1..N : s[k] = turns[k]
    BY <1>1, <1>2, <1>5, <2>1 DEF TurnAsked
  <2>3. turns' = s /\ moved.at = "asked" /\ moved.round = 0
    BY <1>5, <2>1 DEF TurnAsked
  <2>4. ASSUME NEW k \in DOMAIN s, s[k].at \in {"asked", "planner", "tools"} PROVE s[k].round < L
    <3>1. CASE k = N + 1
      BY <2>2, <2>3, <1>3, <3>1
    <3>2. CASE k # N + 1
      <4>1. k \in 1..N
        BY <2>2, <3>2
      <4> QED BY <1>1, <1>2, <1>3, <2>2, <2>4, <4>1 DEF RoundsLeft
    <3> QED BY <3>1, <3>2
  <2>5. RoundsLeft'
    BY <1>3, <2>3, <2>4 DEF RoundsLeft
  <2> QED BY <2>2, <2>3, <2>5
<1>6. ASSUME NEW n, NEW moved, moved \in TurnsOf(scene), n \in 1..N, turns' = [turns EXCEPT ![n] = moved],
             moved.at \in {"asked", "planner", "tools"} => moved.round < L
      PROVE  /\ turns' \in Seq(TurnsOf(scene)) /\ RoundsLeft' /\ Len(turns') = N
             /\ \A k \in 1..N : k # n => turns'[k] = turns[k]
             /\ \A other : ~ TurnAsked(other)
  <2>1. PICK s : s = [turns EXCEPT ![n] = moved]
    OBVIOUS
  <2>2. /\ s \in Seq(TurnsOf(scene)) /\ Len(s) = N /\ DOMAIN s = 1..N /\ s[n] = moved
        /\ \A k \in 1..N : k # n => s[k] = turns[k]
    BY <1>1, <1>2, <1>6, <2>1
  <2>3. turns' = s
    BY <1>6, <2>1
  <2>4. RoundsLeft'
    BY <1>1, <1>2, <1>3, <1>6, <2>2, <2>3 DEF RoundsLeft
  <2>5. ASSUME NEW other, TurnAsked(other) PROVE FALSE
    <3>1. Len(Append(turns, other)) = N + 1
      BY <1>1, <1>2, <2>5 DEF TurnAsked
    <3> QED BY <2>2, <2>3, <2>5, <3>1 DEF TurnAsked
  <2> QED BY <2>2, <2>3, <2>4, <2>5
<1>7. CASE \E moved : TurnAsked(moved)
  BY <1>1, <1>5, <1>7
<1>8. CASE \E n : Launches(n)
  <2>1. PICK n : Launches(n)
    BY <1>8
  <2>2. PICK moved : moved = [turns[n] EXCEPT !.at = "planner"]
    OBVIOUS
  <2>3. n \in 1..N /\ turns[n] \in TurnsOf(scene) /\ turns[n].at = "asked"
    BY <1>1, <1>2, <2>1 DEF Launches
  <2>4. moved \in TurnsOf(scene) /\ moved.round = turns[n].round
    BY <2>2, <2>3 DEF TurnsOf
  <2>5. moved.round < L
    BY <1>1, <1>2, <1>3, <2>3, <2>4 DEF RoundsLeft
  <2>6. turns' = [turns EXCEPT ![n] = moved]
    BY <2>1, <2>2 DEF Launches
  <2>7. /\ turns' \in Seq(TurnsOf(scene)) /\ RoundsLeft' /\ Len(turns') = N
        /\ \A k \in 1..N : k # n => turns'[k] = turns[k]
        /\ \A other : ~ TurnAsked(other)
    BY <1>6, <2>3, <2>4, <2>5, <2>6
  <2> QED BY <1>1, <2>1, <2>7
<1>9. CASE \E n, moved : Advanced(n, moved)
  <2>1. PICK n, moved : Advanced(n, moved)
    BY <1>9
  <2>2. /\ n \in 1..N /\ moved \in TurnsOf(scene) /\ turns' = [turns EXCEPT ![n] = moved]
        /\ moved.at \in {"asked", "planner", "tools"} => moved.round < L
        /\ turns[n].at # "asked"
    BY <1>1, <1>3, <2>1 DEF Advanced
  <2>3. /\ turns' \in Seq(TurnsOf(scene)) /\ RoundsLeft' /\ Len(turns') = N
        /\ \A k \in 1..N : k # n => turns'[k] = turns[k]
        /\ \A other : ~ TurnAsked(other)
    BY <1>6, <2>2
  <2> QED BY <1>1, <2>2, <2>3
<1> QED BY <1>4, <1>7, <1>8, <1>9

(* A tab stays typed when turns are added. *)
LEMMA TabGrows ==
  ASSUME NEW m \in Nat, NEW n \in Nat, m <= n, NEW tab, TabTyped(tab, m)
  PROVE  TabTyped(tab, n)
<1>1. Messages(m) \subseteq Messages(n)
  BY DEF Messages
<1>2. Seq(Messages(m)) \subseteq Seq(Messages(n))
  BY <1>1
<1>3. 1..m \subseteq 1..n
  OBVIOUS
<1> QED BY <1>2, <1>3 DEF TabTyped

(* So do the sessions kept for the tabs. *)
LEMMA StoreGrows ==
  ASSUME ScreenTyped, NEW n \in Nat, Len(turns) <= n
  PROVE  store \in [Sids -> Seq(Messages(n))]
<1>1. PICK m \in Nat : m = Len(turns)
  BY TurnsListed
<1>2. Messages(m) \subseteq Messages(n)
  BY <1>1 DEF Messages
<1>3. Seq(Messages(m)) \subseteq Seq(Messages(n))
  BY <1>2
<1>4. store \in [Sids -> Seq(Messages(m))]
  BY <1>1 DEF ScreenTyped
<1> QED BY <1>3, <1>4

(* A message is appended to a session. *)
LEMMA AppendTyped ==
  ASSUME ScreenTyped, NEW n \in Nat, Len(turns) <= n, NEW sid \in Sids, NEW message \in Messages(n),
         store' = [store EXCEPT ![sid] = Append(store[sid], message)]
  PROVE  store' \in [Sids -> Seq(Messages(n))]
<1>1. store \in [Sids -> Seq(Messages(n))]
  BY StoreGrows
<1>2. store[sid] \in Seq(Messages(n))
  BY <1>1
<1>3. PICK s : s = Append(store[sid], message)
  OBVIOUS
<1>4. s \in Seq(Messages(n))
  BY <1>2, <1>3
<1>5. store' = [store EXCEPT ![sid] = s]
  BY <1>3
<1> QED BY <1>1, <1>4, <1>5

(* And so do the numbers of the turns that sessions are at. *)
LEMMA SessionsGrow ==
  ASSUME ScreenTyped, NEW n \in Nat, Len(turns) <= n
  PROVE  sessions \in [Sids -> 0..n]
<1>1. PICK m \in Nat : m = Len(turns)
  BY TurnsListed
<1>2. 0..m \subseteq 0..n
  BY <1>1
<1> QED BY <1>1, <1>2 DEF ScreenTyped

(* Every step keeps the types. *)
LEMMA TypesKept ==
  ASSUME ScreenTyped, PromptsApart, ScreenNext
  PROVE  ScreenTyped'
<1>1. PICK t \in Tabs :
        \/ \E sid \in Sids : Turned(t, sid)
        \/ Clearing(t)
        \/ Interrupted(t)
        \/ \E moved : Prompted(t, moved)
        \/ Posted(t)
        \/ Connected(t)
        \/ \E messages : Taken(t, messages) /\ ChunkOf(CallsOf(scene), messages)
        \/ Received(t)
        \/ TurnOver(t)
  BY StepsOfScreen
<1>2. scene' = scene /\ scene \in Scenes
  BY StepsOfScreen DEF ScreenTyped
<1>3. PICK N \in Nat : N = Len(turns) /\ DOMAIN turns = 1..N
  BY TurnsListed
<1>4. TabTyped(screen[t], N) /\ DOMAIN screen = Tabs
  BY <1>3 DEF ScreenTyped
<1>5. store \in [Sids -> Seq(Messages(N))] /\ cleared \in [Sids -> 0..scene.clears] /\ scene.clears \in Nat
  BY <1>2, <1>3, ScenesAssumption DEF ScreenTyped
<1>6. screen[t].stage # "closed" => screen[t].sid \in Sids
  BY <1>4 DEF TabTyped
<1>7. \/ turns' = turns
      \/ \E moved : TurnAsked(moved)
      \/ \E n : Launches(n)
      \/ \E n, moved : Advanced(n, moved)
  <2>1. ASSUME NEW moved, Prompted(t, moved) PROVE TurnAsked(moved)
    BY <2>1 DEF Prompted, TurnAsked
  <2>2. ASSUME Posted(t) PROVE turns' = turns \/ Launches(screen[t].prompt)
    <3>1. screen[t].prompt \in 1..Len(turns) /\ turns[screen[t].prompt].at = "asked"
      BY <1>3, <1>4, <2>2 DEF Posted, PromptsApart, TabTyped, Awaiting
    <3> QED BY <2>2, <3>1 DEF Posted, Launches
  <2>3. ASSUME NEW messages, Taken(t, messages) PROVE \E n, moved : Advanced(n, moved)
    BY <2>3 DEF Taken
  <2>4. ASSUME TurnOver(t) PROVE turns' = turns \/ \E n, moved : Advanced(n, moved)
    BY <2>4 DEF TurnOver
  <2>5. (\E sid \in Sids : Turned(t, sid)) \/ Clearing(t) \/ Interrupted(t) \/ Connected(t) \/ Received(t) => turns' = turns
    BY DEF Turned, Clearing, Interrupted, Connected, Received
  <2> QED BY <1>1, <2>1, <2>2, <2>3, <2>4, <2>5
<1>8. /\ turns' \in Seq(TurnsOf(scene)) /\ RoundsLeft'
      /\ \A moved : TurnAsked(moved) => Len(turns') = N + 1
  BY <1>2, <1>3, <1>7, TurnsKept
<1>9. PICK M \in Nat : M = Len(turns') /\ N <= M
  BY <1>2, <1>3, <1>7, TurnsKept
<1>10. \A u \in Tabs : TabTyped(screen[u], M)
  BY <1>3, <1>9, TabGrows DEF ScreenTyped
<1>11. store \in [Sids -> Seq(Messages(M))] /\ sessions \in [Sids -> 0..M]
  BY <1>3, <1>9, StoreGrows, SessionsGrow
<1> DEFINE Goal == /\ store' \in [Sids -> Seq(Messages(M))] /\ cleared' \in [Sids -> 0..scene.clears]
                   /\ sessions' \in [Sids -> 0..M]
                   /\ Only(t) /\ TabTyped(screen'[t], M)
<1>12. ASSUME NEW sid \in Sids, Turned(t, sid) PROVE Goal
  <2>1. PICK tab : tab = screen'[t]
    OBVIOUS
  <2>2. /\ Shaped(tab) /\ tab.stage = "idle" /\ tab.sid = sid /\ tab.messages = store[sid] /\ tab.seen = cleared[sid]
        /\ tab.registry \subseteq Sids /\ sid \in tab.registry
    BY <1>12, <2>1 DEF Turned
  <2>3. store[sid] \in Seq(Messages(M)) /\ cleared[sid] \in Nat
    BY <1>5, <1>11
  <2>4. TabTyped(tab, M)
    BY <2>2, <2>3 DEF TabTyped, Shaped, ScreenStages, Awaiting
  <2> QED BY <1>5, <1>11, <1>12, <2>1, <2>4 DEF Turned
<1>13. ASSUME Clearing(t) PROVE Goal
  <2>1. PICK tab, sid : tab = screen'[t] /\ sid = screen[t].sid
    OBVIOUS
  <2>2. /\ Stays(t) /\ tab.stage = "idle" /\ tab.messages = <<>> /\ tab.seen = cleared[sid] + 1 /\ cleared[sid] < scene.clears
        /\ store' = [store EXCEPT ![sid] = <<>>]
        /\ cleared' = [cleared EXCEPT ![sid] = cleared[sid] + 1]
        /\ sessions' = [sessions EXCEPT ![sid] = 0] \/ sessions' = sessions
    BY <1>13, <2>1 DEF Clearing
  <2>3. sid \in Sids
    BY <1>6, <2>1, <2>2 DEF Stays
  <2>4. <<>> \in Seq(Messages(M))
    OBVIOUS
  <2>5. cleared[sid] \in 0..scene.clears /\ cleared[sid] + 1 \in 0..scene.clears /\ cleared[sid] + 1 \in Nat
    BY <1>5, <2>2, <2>3
  <2>6. TabTyped(tab, M)
    BY <2>1, <2>2, <2>4, <2>5 DEF TabTyped, Shaped, Stays, ScreenStages, Awaiting
  <2>7. store' \in [Sids -> Seq(Messages(M))]
    BY <1>11, <2>2, <2>4
  <2>8. cleared' \in [Sids -> 0..scene.clears]
    BY <1>5, <2>2, <2>5
  <2>9. sessions' \in [Sids -> 0..M]
    BY <1>11, <2>2
  <2> QED BY <2>1, <2>2, <2>6, <2>7, <2>8, <2>9 DEF Stays
<1>14. ASSUME Interrupted(t) PROVE Goal
  <2>1. PICK tab : tab = screen'[t]
    OBVIOUS
  <2>2. /\ Stays(t) /\ tab.stage = "idle" /\ tab.messages = screen[t].messages /\ tab.seen = screen[t].seen
    BY <1>14, <2>1 DEF Interrupted
  <2>3. TabTyped(tab, M)
    BY <1>10, <2>1, <2>2 DEF TabTyped, Shaped, Stays, ScreenStages, Awaiting
  <2> QED BY <1>5, <1>11, <1>14, <2>1, <2>2, <2>3 DEF Interrupted, Stays
<1>15. ASSUME NEW moved, Prompted(t, moved) PROVE Goal
  <2>1. PICK tab, sid : tab = screen'[t] /\ sid = screen[t].sid
    OBVIOUS
  <2>2. PICK message : message = Message("user", sid, N + 1)
    OBVIOUS
  <2>3. /\ Stays(t) /\ tab.stage = "posting" /\ tab.prompt = N + 1 /\ tab.seen = screen[t].seen
        /\ tab.messages = Append(screen[t].messages, message)
        /\ store' = [store EXCEPT ![sid] = Append(store[sid], message)]
    BY <1>3, <1>15, <2>1, <2>2 DEF Prompted
  <2>4. sid \in Sids
    BY <1>6, <2>1, <2>3 DEF Stays
  <2>5. M = N + 1
    BY <1>8, <1>9, <1>15 DEF Prompted, TurnAsked
  <2>6. message \in Messages(M) /\ N + 1 \in 1..M
    BY <2>2, <2>4, <2>5 DEF Message, Messages
  <2>7. store' \in [Sids -> Seq(Messages(M))]
    BY <1>3, <1>9, <2>3, <2>4, <2>6, AppendTyped
  <2>8. PICK s : s = Append(screen[t].messages, message)
    OBVIOUS
  <2>9. s \in Seq(Messages(M))
    <3>1. PICK old : old = screen[t].messages
      OBVIOUS
    <3>2. old \in Seq(Messages(M))
      BY <1>10, <3>1 DEF TabTyped
    <3> QED BY <2>6, <2>8, <3>1, <3>2
  <2>10. TabTyped(tab, M)
    BY <1>10, <2>1, <2>3, <2>6, <2>8, <2>9 DEF TabTyped, Shaped, Stays, ScreenStages, Awaiting
  <2> QED BY <1>5, <1>11, <1>15, <2>1, <2>3, <2>7, <2>10 DEF Prompted, Stays
<1>16. ASSUME Reads(t), TabTyped(screen'[t], M), sessions' \in [Sids -> 0..M] PROVE Goal
  BY <1>5, <1>11, <1>16 DEF Reads, Stays
<1>17. ASSUME Posted(t) PROVE Goal
  <2>1. PICK tab : tab = screen'[t]
    OBVIOUS
  <2>2. /\ Stays(t) /\ Reads(t) /\ tab.stage \in {"connecting", "idle"} /\ tab.messages = screen[t].messages /\ tab.seen = screen[t].seen
        /\ tab.prompt = screen[t].prompt /\ screen[t].stage = "posting"
    BY <1>17, <2>1 DEF Posted, Reads
  <2>3. TabTyped(tab, M)
    BY <1>10, <2>1, <2>2 DEF TabTyped, Shaped, Stays, ScreenStages, Awaiting
  <2>4. screen[t].prompt \in 0..M
    BY <1>3, <1>4, <1>9, <2>2 DEF TabTyped, Awaiting
  <2>5. sessions' \in [Sids -> 0..M]
    BY <1>11, <1>17, <2>4 DEF Posted
  <2> QED BY <1>16, <2>1, <2>2, <2>3, <2>5
<1>18. ASSUME Connected(t) PROVE Goal
  <2>1. PICK tab : tab = screen'[t]
    OBVIOUS
  <2>2. /\ Stays(t) /\ Reads(t) /\ tab.stage = "streaming" /\ tab.messages = screen[t].messages /\ tab.seen = screen[t].seen
        /\ tab.prompt = screen[t].prompt /\ screen[t].stage = "connecting"
        /\ tab.stream.turn = sessions[screen[t].sid] /\ sessions[screen[t].sid] # 0 /\ sessions' = sessions
    BY <1>18, <2>1 DEF Connected, Reads
  <2>3. sessions[screen[t].sid] \in 1..M
    BY <1>6, <1>11, <2>2
  <2>4. TabTyped(tab, M)
    BY <1>10, <2>1, <2>2, <2>3 DEF TabTyped, Shaped, Stays, ScreenStages, Awaiting
  <2> QED BY <1>11, <1>16, <2>1, <2>2, <2>4
<1>19. ASSUME Received(t) \/ \E messages : Taken(t, messages) PROVE Goal
  <2>1. PICK tab : tab = screen'[t]
    OBVIOUS
  <2>2. /\ Stays(t) /\ Reads(t) /\ tab.stage = "streaming" /\ tab.messages = screen[t].messages /\ tab.seen = screen[t].seen
        /\ tab.prompt = screen[t].prompt /\ screen[t].stage = "streaming"
        /\ tab.stream.turn = screen[t].stream.turn /\ sessions' = sessions
    BY <1>19, <2>1 DEF Received, Taken, Reads
  <2>4. TabTyped(tab, M)
    BY <1>10, <2>1, <2>2 DEF TabTyped, Shaped, Stays, ScreenStages, Awaiting
  <2> QED BY <1>11, <1>16, <2>1, <2>2, <2>4
<1>20. ASSUME TurnOver(t) PROVE Goal
  <2>1. PICK tab, sid : tab = screen'[t] /\ sid = screen[t].sid
    OBVIOUS
  <2>2. PICK message : message = Message("assistant", sid, screen[t].prompt)
    OBVIOUS
  <2>3. /\ Stays(t) /\ tab.stage = "idle" /\ tab.seen = screen[t].seen /\ cleared' = cleared /\ sessions' = sessions
        /\ screen[t].stage \in {"connecting", "streaming"}
        /\ \/ tab.messages = Append(screen[t].messages, message) /\ store' = [store EXCEPT ![sid] = Append(store[sid], message)]
           \/ tab.messages = screen[t].messages /\ store' = store
    BY <1>20, <2>1, <2>2 DEF TurnOver
  <2>4. sid \in Sids
    BY <1>6, <2>1, <2>3
  <2>5. screen[t].prompt \in 1..M
    BY <1>10, <2>3 DEF TabTyped, Awaiting
  <2>6. message \in Messages(M)
    BY <2>2, <2>4, <2>5 DEF Message, Messages
  <2>7. store' \in [Sids -> Seq(Messages(M))]
    <3>1. store' = [store EXCEPT ![sid] = Append(store[sid], message)] => store' \in [Sids -> Seq(Messages(M))]
      BY <1>3, <1>9, <2>4, <2>6, AppendTyped
    <3> QED BY <1>11, <2>3, <3>1
  <2>8. PICK s : s = Append(screen[t].messages, message)
    OBVIOUS
  <2>9. s \in Seq(Messages(M)) /\ screen[t].messages \in Seq(Messages(M))
    <3>1. PICK old : old = screen[t].messages
      OBVIOUS
    <3>2. old \in Seq(Messages(M))
      BY <1>10, <3>1 DEF TabTyped
    <3> QED BY <2>6, <2>8, <3>1, <3>2
  <2>10. tab.messages \in Seq(Messages(M))
    BY <2>3, <2>8, <2>9
  <2>11. TabTyped(tab, M)
    BY <1>10, <2>1, <2>3, <2>10 DEF TabTyped, Shaped, Stays, ScreenStages, Awaiting
  <2> QED BY <1>5, <1>11, <2>1, <2>3, <2>7, <2>11 DEF Stays
<1> HIDE DEF Goal
<1>21. Goal
  BY <1>1, <1>12, <1>13, <1>14, <1>15, <1>17, <1>18, <1>19, <1>20
<1> USE DEF Goal
<1>22. ASSUME NEW u \in Tabs PROVE TabTyped(screen'[u], M)
  BY <1>10, <1>21 DEF Only
<1>23. (\A u \in Tabs : TabTyped(screen[u], Len(turns)))'
  BY <1>9, <1>22
<1>24. RoundsLeft' <=> (\A n \in DOMAIN turns :
         turns[n].at \in {"asked", "planner", "tools"} => turns[n].round < Len(scene.answers))'
  BY DEF RoundsLeft
<1> QED BY <1>2, <1>8, <1>9, <1>21, <1>23, <1>24 DEF ScreenTyped, Only

(* Every step keeps the tabs' turns apart. *)
LEMMA PromptsKept ==
  ASSUME ScreenTyped, PromptsApart, ScreenNext
  PROVE  PromptsApart'
<1>1. PICK t \in Tabs :
        \/ \E sid \in Sids : Turned(t, sid)
        \/ Clearing(t)
        \/ Interrupted(t)
        \/ \E moved : Prompted(t, moved)
        \/ Posted(t)
        \/ Connected(t)
        \/ \E messages : Taken(t, messages) /\ ChunkOf(CallsOf(scene), messages)
        \/ Received(t)
        \/ TurnOver(t)
  BY StepsOfScreen
<1>2. PICK N \in Nat : N = Len(turns) /\ DOMAIN turns = 1..N
  BY TurnsListed
<1>3. turns \in Seq(TurnsOf(scene))
  BY DEF ScreenTyped
<1>4. \A u \in Tabs : Awaiting(screen[u]) => screen[u].prompt \in 1..N
  BY <1>2 DEF ScreenTyped, TabTyped
<1>5. Only(t)
  BY <1>1 DEF Turned, Clearing, Interrupted, Prompted, Posted, Connected, Taken, Received, TurnOver, Stays, Reads
<1> DEFINE p(u) == screen[u].prompt
<1>6. \/ ~ Awaiting(screen'[t])
      \/ screen'[t].prompt = N + 1 /\ \E moved : Prompted(t, moved)
      \/ Awaiting(screen[t]) /\ screen'[t].prompt = screen[t].prompt /\ screen'[t].stage # "posting"
  BY <1>1, <1>2 DEF Awaiting, Turned, Clearing, Interrupted, Prompted, Posted, Connected, Taken, Received, TurnOver, Stays, Reads
<1>7. ASSUME NEW u \in Tabs, u # t, Awaiting(screen'[u]), Awaiting(screen'[t])
      PROVE  screen'[u].prompt # screen'[t].prompt
  <2>1. screen'[u] = screen[u]
    BY <1>5, <1>7 DEF Only
  <2>2. screen[u].prompt \in 1..N /\ screen[u].prompt # N + 1
    BY <1>4, <1>7, <2>1
  <2>3. Awaiting(screen[t]) => screen[u].prompt # screen[t].prompt
    BY <1>7, <2>1 DEF PromptsApart
  <2> QED BY <1>6, <1>7, <2>1, <2>2, <2>3
<1>8. ASSUME NEW u \in Tabs, NEW v \in Tabs, u # v, Awaiting(screen'[u]), Awaiting(screen'[v])
      PROVE  screen'[u].prompt # screen'[v].prompt
  <2>1. CASE u = t \/ v = t
    BY <1>7, <1>8, <2>1
  <2>2. CASE u # t /\ v # t
    <3>1. screen'[u] = screen[u] /\ screen'[v] = screen[v]
      BY <1>5, <2>2 DEF Only
    <3> QED BY <1>8, <3>1 DEF PromptsApart
  <2> QED BY <2>1, <2>2
<1>9. ASSUME NEW k \in 1..N, turns[k].at = "asked", Posted(t) => k # screen[t].prompt
      PROVE  turns'[k].at = "asked"
  <2>1. CASE turns' = turns
    BY <1>9, <2>1
  <2>2. ASSUME NEW moved, Prompted(t, moved) PROVE turns'[k].at = "asked"
    <3>1. turns' = Append(turns, moved) /\ moved \in TurnsOf(scene)
      BY <2>2 DEF Prompted
    <3>2. Append(turns, moved)[k] = turns[k]
      BY <1>2, <1>3, <3>1
    <3> QED BY <1>9, <3>1, <3>2
  <2>3. ASSUME NEW n, NEW moved, Advanced(n, moved) PROVE turns'[k].at = "asked"
    <3>1. n # k /\ turns' = [turns EXCEPT ![n] = moved] /\ k \in DOMAIN turns
      BY <1>2, <1>9, <2>3 DEF Advanced
    <3> QED BY <1>9, <3>1
  <2>4. ASSUME Posted(t) PROVE turns'[k].at = "asked"
    <3>1. CASE turns' = turns
      BY <1>9, <3>1
    <3>2. CASE turns' = [turns EXCEPT ![screen[t].prompt].at = "planner"]
      <4>1. turns'[k] = turns[k]
        BY <1>2, <1>9, <2>4, <3>2
      <4> QED BY <1>9, <4>1
    <3> QED BY <2>4, <3>1, <3>2 DEF Posted
  <2>5. (\E sid \in Sids : Turned(t, sid)) \/ Clearing(t) \/ Interrupted(t) \/ Connected(t) \/ Received(t) => turns' = turns
    BY DEF Turned, Clearing, Interrupted, Connected, Received
  <2>6. (\E messages : Taken(t, messages)) => \E n, moved : Advanced(n, moved)
    BY DEF Taken
  <2>7. TurnOver(t) => turns' = turns \/ \E n, moved : Advanced(n, moved)
    BY DEF TurnOver
  <2> QED BY <1>1, <2>1, <2>2, <2>3, <2>4, <2>5, <2>6, <2>7
<1>10. ASSUME NEW u \in Tabs, screen'[u].stage = "posting" PROVE turns'[screen'[u].prompt].at = "asked"
  <2>1. CASE u # t
    <3>1. screen'[u] = screen[u]
      BY <1>5, <2>1 DEF Only
    <3>2. PICK k \in 1..N : k = screen[u].prompt
      BY <1>4, <1>10, <3>1 DEF Awaiting
    <3>3. turns[k].at = "asked"
      BY <1>10, <3>1, <3>2 DEF PromptsApart
    <3>4. Posted(t) => k # screen[t].prompt
      BY <1>10, <2>1, <3>1, <3>2 DEF Posted, PromptsApart, Awaiting
    <3> QED BY <1>9, <3>1, <3>2, <3>3, <3>4
  <2>2. CASE u = t
    <3>1. PICK moved : Prompted(t, moved) /\ screen'[t].prompt = N + 1
      BY <1>6, <1>10, <2>2 DEF Awaiting
    <3>2. turns' = Append(turns, moved) /\ moved \in TurnsOf(scene) /\ moved.at = "asked"
      BY <3>1 DEF Prompted
    <3>3. Append(turns, moved)[N + 1] = moved
      BY <1>2, <1>3, <3>2
    <3> QED BY <2>2, <3>1, <3>2, <3>3
  <2> QED BY <2>1, <2>2
<1> QED BY <1>8, <1>10 DEF PromptsApart

-----------------------------------------------------------------------------
(* The screen: the history.                                                *)

(* An answer is paired with its prompt where the prompt was there. *)
LEMMA AppendPaired ==
  ASSUME NEW S, NEW m \in Seq(S), NEW sid, Paired(m, sid), Own(m, sid), NEW message \in S, message.sid = sid,
         message.role = "assistant" => Message("user", sid, message.of) \in Range(m)
  PROVE  Paired(Append(m, message), sid)
<1>1. PICK n \in Nat : n = Len(m) /\ DOMAIN m = 1..n
  OBVIOUS
<1>2. PICK a : a = Append(m, message)
  OBVIOUS
<1>3. DOMAIN a = 1..(n + 1) /\ a[n + 1] = message /\ \A i \in 1..n : a[i] = m[i]
  BY <1>1, <1>2
<1>4. ASSUME NEW i \in DOMAIN a, a[i].role = "assistant"
      PROVE  \E j \in 1..(i - 1) : a[j] = Message("user", sid, a[i].of)
  <2>1. CASE i = n + 1
    <3>1. a[i] = message
      BY <1>3, <2>1
    <3>2. PICK j \in 1..n : m[j] = Message("user", sid, message.of)
      BY <1>1, <1>4, <3>1 DEF Range
    <3>3. j \in 1..(i - 1) /\ a[j] = m[j]
      BY <1>3, <2>1
    <3> QED BY <3>1, <3>2, <3>3
  <2>2. CASE i # n + 1
    <3>1. i \in 1..n /\ a[i] = m[i]
      BY <1>3, <2>2
    <3>2. PICK j \in 1..(i - 1) : m[j] = Message("user", sid, m[i].of)
      BY <1>1, <1>4, <3>1 DEF Paired
    <3>3. j \in 1..n
      BY <3>1
    <3> QED BY <1>3, <3>1, <3>2, <3>3
  <2> QED BY <2>1, <2>2
<1> QED BY <1>2, <1>4 DEF Paired

(* A message of the session joins messages of the session. *)
LEMMA AppendOwn ==
  ASSUME NEW S, NEW m \in Seq(S), NEW sid, Own(m, sid), NEW message \in S, message.sid = sid
  PROVE  Own(Append(m, message), sid)
<1>1. PICK n \in Nat : n = Len(m) /\ DOMAIN m = 1..n
  OBVIOUS
<1>2. PICK a : a = Append(m, message)
  OBVIOUS
<1>3. DOMAIN a = 1..(n + 1) /\ a[n + 1] = message /\ \A i \in 1..n : a[i] = m[i]
  BY <1>1, <1>2
<1>4. ASSUME NEW i \in DOMAIN a PROVE a[i].sid = sid
  <2>1. i = n + 1 \/ i \in 1..n
    BY <1>3
  <2> QED BY <1>1, <1>3, <2>1 DEF Own
<1> QED BY <1>2, <1>4 DEF Own

(* A new message repeats none. *)
LEMMA StillInjective ==
  ASSUME NEW S, NEW kept \in Seq(S), IsInjective(kept), NEW message \in S, message \notin Range(kept)
  PROVE  IsInjective(Append(kept, message))
<1>1. PICK n \in Nat : n = Len(kept) /\ DOMAIN kept = 1..n
  OBVIOUS
<1>2. PICK a : a = Append(kept, message)
  OBVIOUS
<1>3. DOMAIN a = 1..(n + 1) /\ a[n + 1] = message /\ \A i \in 1..n : a[i] = kept[i]
  BY <1>1, <1>2
<1>4. \A i \in 1..n : a[i] # message
  BY <1>1, <1>3 DEF Range
<1>5. ASSUME NEW i \in DOMAIN a, NEW j \in DOMAIN a PROVE a[i] = a[j] => i = j
  <2>1. (i = n + 1 \/ i \in 1..n) /\ (j = n + 1 \/ j \in 1..n)
    BY <1>3
  <2>2. CASE i \in 1..n /\ j \in 1..n
    BY <1>1, <1>3, <2>2 DEF IsInjective
  <2>3. CASE i = n + 1 \/ j = n + 1
    BY <1>3, <1>4, <2>1, <2>3
  <2> QED BY <2>1, <2>2, <2>3
<1> QED BY <1>2, <1>5 DEF IsInjective

(* A new message that is kept, shown or not, leaves what is shown within what is kept. *)
LEMMA AppendWithin ==
  ASSUME NEW S, NEW kept \in Seq(S), NEW m \in Seq(S), Within(m, kept),
         NEW message \in S, message \notin Range(kept)
  PROVE  Within(m, Append(kept, message)) /\ Within(Append(m, message), Append(kept, message))
<1>1. PICK n \in Nat : n = Len(kept) /\ DOMAIN kept = 1..n
  OBVIOUS
<1>2. PICK a : a = Append(kept, message)
  OBVIOUS
<1>3. DOMAIN a = 1..(n + 1) /\ a[n + 1] = message /\ \A i \in 1..n : a[i] = kept[i]
  BY <1>1, <1>2
<1>4. PICK p \in Nat : p = Len(m) /\ DOMAIN m = 1..p
  OBVIOUS
<1>5. PICK b : b = Append(m, message)
  OBVIOUS
<1>6. DOMAIN b = 1..(p + 1) /\ b[p + 1] = message /\ \A i \in 1..p : b[i] = m[i]
  BY <1>4, <1>5
<1>7. \A i \in 1..p : m[i] \in Range(kept)
  BY <1>4 DEF Within, Range
<1>8. \A i \in 1..p : m[i] # message
  BY <1>7
<1>9. Range(kept) \subseteq Range(a) /\ message \in Range(a)
  <2>1. \A i \in 1..n : i \in 1..(n + 1)
    OBVIOUS
  <2>2. n + 1 \in 1..(n + 1)
    OBVIOUS
  <2> QED BY <1>1, <1>3, <2>1, <2>2 DEF Range
<1>10. ASSUME NEW i \in 1..p, NEW k \in DOMAIN a, a[k] = m[i] PROVE k \in 1..n /\ kept[k] = m[i]
  <2>1. k # n + 1
    BY <1>3, <1>8, <1>10
  <2> QED BY <1>3, <1>10, <2>1
<1>11. Within(m, a)
  <2>1. ASSUME NEW i \in DOMAIN m, NEW j \in DOMAIN m, NEW k \in DOMAIN a, NEW l \in DOMAIN a,
               i < j, a[k] = m[i], a[l] = m[j]
        PROVE  k < l
    <3>1. k \in DOMAIN kept /\ kept[k] = m[i] /\ l \in DOMAIN kept /\ kept[l] = m[j]
      BY <1>1, <1>4, <1>10, <2>1
    <3> QED BY <2>1, <3>1 DEF Within
  <2>2. Range(m) \subseteq Range(a)
    BY <1>9 DEF Within
  <2> QED BY <2>1, <2>2 DEF Within
<1>12. Within(b, a)
  <2>1. ASSUME NEW i \in DOMAIN b, NEW j \in DOMAIN b, NEW k \in DOMAIN a, NEW l \in DOMAIN a,
               i < j, a[k] = b[i], a[l] = b[j]
        PROVE  k < l
    <3>1. i \in 1..p /\ b[i] = m[i]
      BY <1>6, <2>1
    <3>2. k \in 1..n /\ kept[k] = m[i]
      BY <1>10, <2>1, <3>1
    <3>3. CASE j = p + 1
      <4>1. l = n + 1
        <5>1. a[l] = message
          BY <1>6, <2>1, <3>3
        <5>2. \A x \in 1..n : a[x] # message
          BY <1>1, <1>3 DEF Range
        <5> QED BY <1>3, <5>1, <5>2
      <4> QED BY <3>2, <4>1
    <3>4. CASE j # p + 1
      <4>1. j \in 1..p /\ b[j] = m[j]
        BY <1>6, <3>4
      <4> QED BY <1>4, <1>11, <2>1, <3>1, <4>1 DEF Within
    <3> QED BY <3>3, <3>4
  <2>2. Range(b) \subseteq Range(a)
    <3>1. ASSUME NEW i \in DOMAIN b PROVE b[i] \in Range(a)
      <4>1. i = p + 1 \/ i \in 1..p
        BY <1>6
      <4> QED BY <1>6, <1>7, <1>9, <4>1
    <3> QED BY <3>1 DEF Range
  <2> QED BY <2>1, <2>2 DEF Within
<1> QED BY <1>2, <1>5, <1>11, <1>12

(* What is kept is within what is kept. *)
LEMMA WithinItself ==
  ASSUME NEW S, NEW s \in Seq(S), IsInjective(s)
  PROVE  Within(s, s)
BY DEF Within, IsInjective

(* A message that the actor t adds to its history and the store's. *)
Adds(t, message) ==
  LET sid == screen[t].sid IN
  /\ screen'[t].messages = Append(screen[t].messages, message)
  /\ store' = [store EXCEPT ![sid] = Append(store[sid], message)]
  /\ message.sid = sid /\ message \notin Range(store[sid])
  /\ message.role = "assistant" => Message("user", sid, message.of) \in Range(screen[t].messages)
  /\ \E n \in Nat : Len(turns) <= n /\ message \in Messages(n)

(* A message that a tab adds, to its session and to its page or to neither, leaves
   every session and every page as HistoryInv wants them. *)
LEMMA AddingKeeps ==
  ASSUME ScreenTyped, HistoryInv, NEW t \in Tabs, NEW message, Stays(t), Adds(t, message),
         cleared' = cleared, screen'[t].seen = screen[t].seen
  PROVE  /\ \A s \in Sids : StoreKept(s, store'[s], cleared'[s])
         /\ \A u \in Tabs : screen'[u].stage # "closed"
              => TabKept(screen'[u], store'[screen'[u].sid], cleared'[screen'[u].sid])
<1>1. PICK sid \in Sids : sid = screen[t].sid /\ screen'[t].sid = sid
  BY DEF Stays, ScreenTyped, TabTyped
<1>2. PICK n \in Nat : Len(turns) <= n /\ message \in Messages(n)
  BY DEF Adds
<1>3. PICK S : S = Messages(n)
  OBVIOUS
<1>4. store \in [Sids -> Seq(S)] /\ message \in S
  BY <1>2, <1>3, StoreGrows
<1>5. PICK kept \in Seq(S) : kept = store[sid]
  BY <1>4
<1>6. PICK m : m = screen[t].messages
  OBVIOUS
<1>7. m \in Seq(S)
  <2>1. Len(turns) \in Nat
    BY TurnsListed
  <2>2. TabTyped(screen[t], n)
    BY <1>2, <2>1, TabGrows DEF ScreenTyped
  <2> QED BY <1>3, <1>6, <2>2 DEF TabTyped
<1>8. PICK count : count = cleared[sid]
  OBVIOUS
<1>9. /\ StoreKept(sid, kept, count) /\ TabKept(screen[t], kept, count)
      /\ message.sid = sid /\ message \notin Range(kept)
      /\ message.role = "assistant" => Message("user", sid, message.of) \in Range(m)
  BY <1>1, <1>5, <1>6, <1>8 DEF HistoryInv, Stays, Adds
<1>10. count \in Nat /\ screen[t].seen \in Nat
  <2>1. cleared[sid] \in 0..scene.clears
    BY DEF ScreenTyped
  <2>2. screen[t].seen \in Nat
    BY DEF ScreenTyped, TabTyped
  <2> QED BY <1>8, <2>1, <2>2
<1>11. PICK more : more = Append(kept, message)
  OBVIOUS
<1>12. store' = [store EXCEPT ![sid] = more]
  BY <1>1, <1>5, <1>11 DEF Adds
<1>13. IsInjective(more) /\ Own(more, sid) /\ more \in Seq(S)
  <2>1. more \in Seq(S)
    BY <1>4, <1>11
  <2>2. IsInjective(kept) /\ Own(kept, sid)
    BY <1>9 DEF StoreKept
  <2>3. IsInjective(more)
    BY <1>4, <1>9, <1>11, <2>2, StillInjective
  <2>4. Own(more, sid)
    BY <1>4, <1>9, <1>11, <2>2, AppendOwn
  <2> QED BY <2>1, <2>3, <2>4
<1>14. count = 0 => Paired(more, sid)
  <2>1. SUFFICES ASSUME count = 0 PROVE Paired(more, sid)
    OBVIOUS
  <2>2. screen[t].seen = count
    BY <1>9, <1>10, <2>1 DEF TabKept
  <2>3. Range(m) \subseteq Range(kept)
    BY <1>6, <1>9, <2>2 DEF TabKept, Within
  <2>4. Paired(kept, sid) /\ Own(kept, sid)
    BY <1>9, <2>1 DEF StoreKept
  <2>5. message.role = "assistant" => Message("user", sid, message.of) \in Range(kept)
    BY <1>9, <2>3
  <2> QED BY <1>4, <1>9, <1>11, <2>4, <2>5, AppendPaired
<1>15. StoreKept(sid, more, count)
  BY <1>13, <1>14 DEF StoreKept
<1>16. ASSUME NEW s \in Sids PROVE StoreKept(s, store'[s], cleared'[s])
  <2>1. CASE s = sid
    BY <1>4, <1>8, <1>12, <1>15, <2>1
  <2>2. CASE s # sid
    <3>1. store'[s] = store[s] /\ cleared'[s] = cleared[s]
      BY <1>4, <1>12, <2>2
    <3> QED BY <3>1 DEF HistoryInv
  <2> QED BY <2>1, <2>2
<1>17. PICK said : said = Append(m, message)
  OBVIOUS
<1>18. screen'[t].messages = said
  BY <1>6, <1>17 DEF Adds
<1>19. Own(said, sid) /\ (count = 0 => Paired(said, sid))
  <2>1. Own(m, sid) /\ (count = 0 => Paired(m, sid))
    BY <1>1, <1>6, <1>9 DEF TabKept
  <2> QED BY <1>4, <1>7, <1>9, <1>17, <2>1, AppendOwn, AppendPaired
<1>20. screen[t].seen = count => Within(said, more)
  <2>1. screen[t].seen = count => Within(m, kept)
    BY <1>6, <1>9 DEF TabKept
  <2> QED BY <1>4, <1>7, <1>9, <1>11, <1>17, <2>1, AppendWithin
<1>21. TabKept(screen'[t], more, count)
  BY <1>1, <1>9, <1>18, <1>19, <1>20 DEF TabKept
<1>22. ASSUME NEW u \in Tabs, screen'[u].stage # "closed"
       PROVE  TabKept(screen'[u], store'[screen'[u].sid], cleared'[screen'[u].sid])
  <2>1. CASE u = t
    <3>1. store'[screen'[u].sid] = more /\ cleared'[screen'[u].sid] = count
      BY <1>1, <1>4, <1>8, <1>12, <2>1
    <3> QED BY <1>21, <2>1, <3>1
  <2>2. CASE u # t
    <3>1. screen'[u] = screen[u]
      BY <2>2 DEF Stays, Only
    <3>2. PICK o \in Sids : o = screen[u].sid
      BY <1>22, <3>1 DEF ScreenTyped, TabTyped
    <3>3. TabKept(screen[u], store[o], cleared[o])
      BY <1>22, <3>1, <3>2 DEF HistoryInv
    <3>4. CASE o # sid
      <4>1. store'[o] = store[o]
        BY <1>4, <1>12, <3>4
      <4> QED BY <3>1, <3>2, <3>3, <4>1
    <3>5. CASE o = sid
      <4>1. store'[o] = more /\ cleared'[o] = count /\ store[o] = kept /\ cleared[o] = count
        BY <1>4, <1>5, <1>8, <1>12, <3>5
      <4>2. PICK w : w = screen[u].messages
        OBVIOUS
      <4>3. w \in Seq(S)
        <5>1. Len(turns) \in Nat
          BY TurnsListed
        <5>2. TabTyped(screen[u], n)
          BY <1>2, <5>1, TabGrows DEF ScreenTyped
        <5> QED BY <1>3, <4>2, <5>2 DEF TabTyped
      <4>4. Within(w, kept) => Within(w, more)
        BY <1>4, <1>9, <1>11, <4>3, AppendWithin
      <4>5. TabKept(screen[u], more, count)
        BY <3>3, <4>1, <4>2, <4>4 DEF TabKept
      <4> QED BY <3>1, <3>2, <4>1, <4>5
    <3> QED BY <3>4, <3>5
  <2> QED BY <2>1, <2>2
<1> QED BY <1>16, <1>22

(* The part of HistoryInv that is about the answers awaited. *)
AwaitsOne(u) == Awaiting(screen[u]) =>
  Message("user", screen[u].sid, screen[u].prompt) \in Range(screen[u].messages) /\ Unanswered(screen[u].prompt)

(* HistoryInv, session by session and tab by tab. *)
LEMMA HistoryOf ==
  HistoryInv <=> /\ \A s \in Sids : StoreKept(s, store[s], cleared[s])
                 /\ \A u \in Tabs : screen[u].stage # "closed"
                      => TabKept(screen[u], store[screen[u].sid], cleared[screen[u].sid])
                 /\ \A u \in Tabs : AwaitsOne(u)
BY DEF HistoryInv, AwaitsOne

(* A tab that turns to a session shows what was kept for it. *)
LEMMA TurningKeeps ==
  ASSUME ScreenTyped, HistoryInv, NEW t \in Tabs, NEW sid \in Sids, Turned(t, sid)
  PROVE  HistoryInv'
<1>1. PICK tab : tab = screen'[t]
  OBVIOUS
<1>2. /\ Only(t) /\ tab.stage = "idle" /\ tab.sid = sid /\ tab.messages = store[sid] /\ tab.seen = cleared[sid]
      /\ store' = store /\ cleared' = cleared
  BY <1>1 DEF Turned
<1>3. StoreKept(sid, store[sid], cleared[sid])
  BY DEF HistoryInv
<1>4. PICK kept, count : kept = store[sid] /\ count = cleared[sid]
  OBVIOUS
<1>5. kept \in Seq(Messages(Len(turns))) /\ count \in Nat
  BY <1>4 DEF ScreenTyped
<1>6. Within(kept, kept)
  BY <1>3, <1>4, <1>5, WithinItself DEF StoreKept
<1>7. TabKept(tab, kept, count)
  BY <1>2, <1>3, <1>4, <1>5, <1>6 DEF TabKept, StoreKept
<1>8. ASSUME NEW u \in Tabs, screen'[u].stage # "closed"
      PROVE  TabKept(screen'[u], store'[screen'[u].sid], cleared'[screen'[u].sid])
  <2>1. CASE u = t
    BY <1>1, <1>2, <1>4, <1>7, <2>1
  <2>2. CASE u # t
    <3>1. screen'[u] = screen[u]
      BY <1>2, <2>2 DEF Only
    <3> QED BY <1>2, <1>8, <3>1 DEF HistoryInv
  <2> QED BY <2>1, <2>2
<1>9. ASSUME NEW u \in Tabs PROVE AwaitsOne(u)'
  <2>1. CASE u = t
    BY <1>1, <1>2, <2>1 DEF AwaitsOne, Awaiting
  <2>2. CASE u # t
    <3>1. screen'[u] = screen[u]
      BY <1>2, <2>2 DEF Only
    <3>2. AwaitsOne(u)
      BY HistoryOf
    <3> QED BY <1>2, <3>1, <3>2 DEF AwaitsOne, Awaiting, Unanswered
  <2> QED BY <2>1, <2>2
<1>10. \A s \in Sids : StoreKept(s, store'[s], cleared'[s])
  BY <1>2 DEF HistoryInv
<1> QED BY <1>8, <1>9, <1>10 DEF HistoryInv, AwaitsOne

(* Clearing empties the session; the other tabs of it have not seen it cleared. *)
LEMMA ClearingKeeps ==
  ASSUME ScreenTyped, HistoryInv, NEW t \in Tabs, Clearing(t)
  PROVE  HistoryInv'
<1>1. PICK tab, sid : tab = screen'[t] /\ sid = screen[t].sid
  OBVIOUS
<1>2. /\ Only(t) /\ tab.stage = "idle" /\ tab.sid = sid /\ tab.messages = <<>> /\ tab.seen = cleared[sid] + 1
      /\ store' = [store EXCEPT ![sid] = <<>>] /\ cleared' = [cleared EXCEPT ![sid] = cleared[sid] + 1]
  BY <1>1 DEF Clearing, Stays
<1>3. sid \in Sids
  BY <1>1 DEF Clearing, Stays, ScreenTyped, TabTyped
<1>4. \A s \in Sids : cleared[s] \in Nat
  BY DEF ScreenTyped
<1>5. PICK count \in Nat : count = cleared[sid]
  BY <1>3, <1>4
<1>6. /\ store'[sid] = <<>> /\ cleared'[sid] = count + 1
      /\ \A s \in Sids : s # sid => store'[s] = store[s] /\ cleared'[s] = cleared[s]
  BY <1>2, <1>3, <1>5 DEF ScreenTyped
<1>7. IsInjective(<<>>) /\ Own(<<>>, sid) /\ Paired(<<>>, sid) /\ Within(<<>>, <<>>)
  BY DEF IsInjective, Own, Paired, Within, Range
<1>8. ASSUME NEW s \in Sids PROVE StoreKept(s, store'[s], cleared'[s])
  <2>1. CASE s = sid
    BY <1>6, <1>7, <2>1 DEF StoreKept
  <2>2. CASE s # sid
    BY <1>6, <2>2 DEF HistoryInv
  <2> QED BY <2>1, <2>2
<1>9. ASSUME NEW u \in Tabs, screen'[u].stage # "closed"
      PROVE  TabKept(screen'[u], store'[screen'[u].sid], cleared'[screen'[u].sid])
  <2>1. CASE u = t
    <3>1. TabKept(tab, <<>>, count + 1)
      BY <1>2, <1>5, <1>7 DEF TabKept
    <3> QED BY <1>1, <1>2, <1>6, <2>1, <3>1
  <2>2. CASE u # t
    <3>1. screen'[u] = screen[u]
      BY <1>2, <2>2 DEF Only
    <3>2. PICK o \in Sids : o = screen[u].sid
      BY <1>9, <3>1 DEF ScreenTyped, TabTyped
    <3>3. TabKept(screen[u], store[o], cleared[o])
      BY <1>9, <3>1, <3>2 DEF HistoryInv
    <3>4. CASE o # sid
      BY <1>6, <3>1, <3>2, <3>3, <3>4
    <3>5. CASE o = sid
      <4>1. PICK seen \in Nat : seen = screen[u].seen
        BY DEF ScreenTyped, TabTyped
      <4>2. seen <= count
        BY <1>5, <3>3, <3>5, <4>1 DEF TabKept
      <4>3. seen <= count + 1 /\ seen # count + 1 /\ count + 1 # 0
        BY <4>2
      <4>4. TabKept(screen[u], <<>>, count + 1)
        BY <3>2, <3>3, <4>1, <4>3 DEF TabKept
      <4> QED BY <1>6, <3>1, <3>2, <3>5, <4>4
    <3> QED BY <3>4, <3>5
  <2> QED BY <2>1, <2>2
<1>10. \A n : Unanswered(n) => Unanswered(n)'
  <2>1. ASSUME NEW n, Unanswered(n), NEW s \in Sids, NEW k \in DOMAIN store'[s], store'[s][k].role = "assistant"
        PROVE  store'[s][k].of # n
    <3>1. s # sid
      BY <1>6, <2>1
    <3> QED BY <1>6, <2>1, <3>1 DEF Unanswered
  <2> QED BY <2>1 DEF Unanswered
<1>11. ASSUME NEW u \in Tabs PROVE AwaitsOne(u)'
  <2>1. CASE u = t
    BY <1>1, <1>2, <2>1 DEF AwaitsOne, Awaiting
  <2>2. CASE u # t
    <3>1. screen'[u] = screen[u]
      BY <1>2, <2>2 DEF Only
    <3>2. AwaitsOne(u)
      BY HistoryOf
    <3> QED BY <1>10, <3>1, <3>2 DEF AwaitsOne, Awaiting
  <2> QED BY <2>1, <2>2
<1> QED BY <1>8, <1>9, <1>11 DEF HistoryInv, AwaitsOne

(* A step that adds no message. *)
LEMMA RestingKeeps ==
  ASSUME ScreenTyped, HistoryInv, NEW t \in Tabs, Stays(t), store' = store, cleared' = cleared,
         screen'[t].seen = screen[t].seen, screen'[t].messages = screen[t].messages,
         Awaiting(screen'[t]) => Awaiting(screen[t]) /\ screen'[t].prompt = screen[t].prompt
  PROVE  HistoryInv'
<1>1. Only(t) /\ screen[t].stage # "closed" /\ screen'[t].sid = screen[t].sid
  BY DEF Stays
<1>2. ASSUME NEW u \in Tabs, screen'[u].stage # "closed"
      PROVE  TabKept(screen'[u], store'[screen'[u].sid], cleared'[screen'[u].sid])
  <2>1. CASE u = t
    BY <1>1, <2>1 DEF HistoryInv, TabKept
  <2>2. CASE u # t
    <3>1. screen'[u] = screen[u]
      BY <1>1, <2>2 DEF Only
    <3> QED BY <1>2, <3>1 DEF HistoryInv
  <2> QED BY <2>1, <2>2
<1>3. ASSUME NEW u \in Tabs PROVE AwaitsOne(u)'
  <2>0. AwaitsOne(u) /\ (\A n : Unanswered(n) => Unanswered(n)')
    BY HistoryOf DEF Unanswered
  <2>1. CASE u = t
    BY <1>1, <2>0, <2>1 DEF AwaitsOne
  <2>2. CASE u # t
    <3>1. screen'[u] = screen[u]
      BY <1>1, <2>2 DEF Only
    <3> QED BY <2>0, <3>1 DEF AwaitsOne
  <2> QED BY <2>1, <2>2
<1>4. \A s \in Sids : StoreKept(s, store'[s], cleared'[s])
  BY DEF HistoryInv
<1> QED BY <1>2, <1>3, <1>4 DEF HistoryInv, AwaitsOne

(* A question that nobody has asked yet is in no history. *)
LEMMA NewIsNowhere ==
  ASSUME ScreenTyped, NEW sid \in Sids, NEW s \in Sids
  PROVE  /\ Message("user", s, Len(turns) + 1) \notin Range(store[sid])
         /\ Unanswered(Len(turns) + 1)
<1>1. PICK N \in Nat : N = Len(turns)
  BY TurnsListed
<1>2. ASSUME NEW o \in Sids, NEW k \in DOMAIN store[o] PROVE store[o][k].of # N + 1
  <2>1. PICK kept : kept = store[o]
    OBVIOUS
  <2>2. kept \in Seq(Messages(N)) /\ k \in DOMAIN kept
    BY <1>1, <1>2, <2>1 DEF ScreenTyped
  <2>3. kept[k] \in Messages(N)
    BY <2>2
  <2>4. kept[k].of \in 1..N
    BY <2>3 DEF Messages
  <2> QED BY <2>1, <2>4
<1>3. Message("user", s, N + 1) \notin Range(store[sid])
  BY <1>2 DEF Message, Range
<1> QED BY <1>1, <1>2, <1>3 DEF Unanswered

(* What appending puts where. *)
LEMMA AddedIsThere ==
  ASSUME NEW S, NEW m \in Seq(S), NEW message \in S
  PROVE  /\ message \in Range(Append(m, message)) /\ Range(m) \subseteq Range(Append(m, message))
         /\ \A k \in DOMAIN Append(m, message) : Append(m, message)[k] = message \/ (k \in DOMAIN m /\ Append(m, message)[k] = m[k])
<1>1. PICK n \in Nat : n = Len(m) /\ DOMAIN m = 1..n
  OBVIOUS
<1>2. PICK a : a = Append(m, message)
  OBVIOUS
<1>3. DOMAIN a = 1..(n + 1) /\ a[n + 1] = message /\ \A i \in 1..n : a[i] = m[i]
  BY <1>1, <1>2
<1>4. \A i \in 1..n : i \in 1..(n + 1)
  OBVIOUS
<1>5. n + 1 \in 1..(n + 1) /\ \A i \in 1..(n + 1) : i = n + 1 \/ i \in 1..n
  OBVIOUS
<1>6. message \in Range(a) /\ Range(m) \subseteq Range(a)
  BY <1>1, <1>3, <1>4, <1>5 DEF Range
<1>7. \A k \in DOMAIN a : a[k] = message \/ (k \in DOMAIN m /\ a[k] = m[k])
  BY <1>1, <1>3, <1>5
<1> QED BY <1>2, <1>6, <1>7

(* What is not answered stays so, unless the message added is its answer. *)
LEMMA StillUnanswered ==
  ASSUME ScreenTyped, NEW t \in Tabs, NEW message, Stays(t), Adds(t, message), NEW n,
         Unanswered(n), message.role = "user" \/ message.of # n
  PROVE  Unanswered(n)'
<1>1. PICK sid \in Sids : sid = screen[t].sid
  BY DEF Stays, ScreenTyped, TabTyped
<1>2. PICK m \in Nat : Len(turns) <= m /\ message \in Messages(m)
  BY DEF Adds
<1>3. PICK S : S = Messages(m)
  OBVIOUS
<1>4. store \in [Sids -> Seq(S)] /\ message \in S
  BY <1>2, <1>3, StoreGrows
<1>5. PICK kept \in Seq(S) : kept = store[sid]
  BY <1>4
<1>6. PICK more : more = Append(kept, message)
  OBVIOUS
<1>7. store' = [store EXCEPT ![sid] = more]
  BY <1>1, <1>5, <1>6 DEF Adds
<1>8. \A k \in DOMAIN more : more[k] = message \/ (k \in DOMAIN kept /\ more[k] = kept[k])
  BY <1>4, <1>6, AddedIsThere
<1>9. ASSUME NEW s \in Sids, NEW k \in DOMAIN store'[s], store'[s][k].role = "assistant"
      PROVE  store'[s][k].of # n
  <2>1. CASE s = sid
    <3>1. store'[s] = more
      BY <1>4, <1>7, <2>1
    <3> QED BY <1>5, <1>8, <1>9, <2>1, <3>1 DEF Unanswered
  <2>2. CASE s # sid
    <3>1. store'[s] = store[s]
      BY <1>4, <1>7, <2>2
    <3> QED BY <1>9, <3>1 DEF Unanswered
  <2> QED BY <2>1, <2>2
<1> QED BY <1>9 DEF Unanswered

(* A prompt is new to its session: no turn is asked twice. *)
LEMMA PromptingKeeps ==
  ASSUME ScreenTyped, HistoryInv, NEW t \in Tabs, NEW moved, Prompted(t, moved)
  PROVE  HistoryInv'
<1>1. PICK sid \in Sids : sid = screen[t].sid /\ screen'[t].sid = sid
  BY DEF Prompted, Stays, ScreenTyped, TabTyped
<1>2. PICK N \in Nat : N = Len(turns)
  BY TurnsListed
<1>3. PICK message : message = Message("user", sid, N + 1)
  OBVIOUS
<1>4. message \in Messages(N + 1) /\ message.role = "user" /\ message.sid = sid
  BY <1>3 DEF Message, Messages
<1>5. message \notin Range(store[sid]) /\ Unanswered(N + 1)
  BY <1>2, <1>3, NewIsNowhere
<1>6. /\ Stays(t) /\ cleared' = cleared /\ screen'[t].seen = screen[t].seen /\ screen'[t].prompt = N + 1
      /\ screen'[t].messages = Append(screen[t].messages, message)
      /\ store' = [store EXCEPT ![sid] = Append(store[sid], message)]
  BY <1>1, <1>2, <1>3 DEF Prompted
<1>7. Adds(t, message)
  <2>1. \E n \in Nat : Len(turns) <= n /\ message \in Messages(n)
    <3>1. N + 1 \in Nat /\ N <= N + 1
      OBVIOUS
    <3> QED BY <1>2, <1>4, <3>1
  <2> QED BY <1>1, <1>4, <1>5, <1>6, <2>1 DEF Adds
<1>8. /\ \A s \in Sids : StoreKept(s, store'[s], cleared'[s])
      /\ \A u \in Tabs : screen'[u].stage # "closed"
           => TabKept(screen'[u], store'[screen'[u].sid], cleared'[screen'[u].sid])
  BY <1>6, <1>7, AddingKeeps
<1>9. \A n : Unanswered(n) => Unanswered(n)'
  BY <1>4, <1>6, <1>7, StillUnanswered
<1>10. ASSUME NEW u \in Tabs PROVE AwaitsOne(u)'
  <2>1. CASE u = t
    <3>1. PICK m : m = screen[t].messages
      OBVIOUS
    <3>2. m \in Seq(Messages(N + 1))
      <4>1. TabTyped(screen[t], N + 1)
        BY <1>2, TabGrows DEF ScreenTyped
      <4> QED BY <3>1, <4>1 DEF TabTyped
    <3>3. message \in Range(screen'[t].messages)
      BY <1>4, <1>6, <3>1, <3>2, AddedIsThere
    <3> QED BY <1>1, <1>3, <1>5, <1>6, <1>9, <2>1, <3>3 DEF AwaitsOne
  <2>2. CASE u # t
    <3>1. screen'[u] = screen[u]
      BY <1>6, <2>2 DEF Stays, Only
    <3>2. AwaitsOne(u)
      BY HistoryOf
    <3> QED BY <1>9, <3>1, <3>2 DEF AwaitsOne, Awaiting
  <2> QED BY <2>1, <2>2
<1> QED BY <1>8, <1>10 DEF HistoryInv, AwaitsOne

(* An answer comes once for its prompt, since no other tab awaits that turn. *)
LEMMA FinishingKeeps ==
  ASSUME ScreenTyped, PromptsApart, HistoryInv, NEW t \in Tabs, TurnOver(t)
  PROVE  HistoryInv'
<1>1. PICK sid \in Sids : sid = screen[t].sid /\ screen'[t].sid = sid
  BY DEF TurnOver, Stays, ScreenTyped, TabTyped
<1>2. /\ Stays(t) /\ cleared' = cleared /\ screen'[t].seen = screen[t].seen
      /\ Awaiting(screen[t]) /\ screen'[t].stage = "idle"
  BY DEF TurnOver, Awaiting
<1>3. PICK N \in Nat : N = Len(turns)
  BY TurnsListed
<1>4. PICK n \in 1..N : n = screen[t].prompt
  BY <1>2, <1>3 DEF ScreenTyped, TabTyped
<1>5. PICK message : message = Message("assistant", sid, n)
  OBVIOUS
<1>6. CASE store' = store /\ screen'[t].messages = screen[t].messages
  BY <1>2, <1>6, RestingKeeps DEF Awaiting
<1>7. CASE /\ screen'[t].messages = Append(screen[t].messages, message)
           /\ store' = [store EXCEPT ![sid] = Append(store[sid], message)]
  <2>1. Message("user", sid, n) \in Range(screen[t].messages) /\ Unanswered(n)
    BY <1>1, <1>2, <1>4 DEF HistoryInv
  <2>2. message.role = "assistant" /\ message.sid = sid /\ message.of = n /\ message \in Messages(N)
    BY <1>5 DEF Message, Messages
  <2>3. message \notin Range(store[sid])
    BY <2>1, <2>2 DEF Unanswered, Range
  <2>4. Adds(t, message)
    BY <1>1, <1>3, <1>7, <2>1, <2>2, <2>3 DEF Adds
  <2>5. /\ \A s \in Sids : StoreKept(s, store'[s], cleared'[s])
        /\ \A u \in Tabs : screen'[u].stage # "closed"
             => TabKept(screen'[u], store'[screen'[u].sid], cleared'[screen'[u].sid])
    BY <1>2, <2>4, AddingKeeps
  <2>6. ASSUME NEW u \in Tabs PROVE AwaitsOne(u)'
    <3>1. CASE u = t
      BY <1>2, <3>1 DEF AwaitsOne, Awaiting
    <3>2. CASE u # t
      <4>1. screen'[u] = screen[u]
        BY <1>2, <3>2 DEF Stays, Only
      <4>2. AwaitsOne(u)
        BY HistoryOf
      <4>3. Awaiting(screen[u]) => screen[u].prompt # n
        BY <1>2, <1>4, <3>2 DEF PromptsApart
      <4>4. Awaiting(screen[u]) => Unanswered(screen[u].prompt)'
        <5>1. PICK p : p = screen[u].prompt
          OBVIOUS
        <5>2. Unanswered(p) /\ p # n => Unanswered(p)'
          BY <1>2, <2>2, <2>4, StillUnanswered
        <5>3. Unanswered(p)' <=> Unanswered(screen[u].prompt)'
          BY <4>1, <5>1 DEF Unanswered
        <5> QED BY <4>2, <4>3, <5>1, <5>2, <5>3 DEF AwaitsOne
      <4> QED BY <4>1, <4>2, <4>4 DEF AwaitsOne, Awaiting, Unanswered
    <3> QED BY <3>1, <3>2
  <2> QED BY <2>5, <2>6 DEF HistoryInv, AwaitsOne
<1> QED BY <1>1, <1>4, <1>5, <1>6, <1>7 DEF TurnOver

(* Every step keeps the history. *)
LEMMA HistoryKept ==
  ASSUME ScreenTyped, PromptsApart, HistoryInv, ScreenNext
  PROVE  HistoryInv'
<1>1. PICK t \in Tabs :
        \/ \E sid \in Sids : Turned(t, sid)
        \/ Clearing(t)
        \/ Interrupted(t)
        \/ \E moved : Prompted(t, moved)
        \/ Posted(t)
        \/ Connected(t)
        \/ \E messages : Taken(t, messages) /\ ChunkOf(CallsOf(scene), messages)
        \/ Received(t)
        \/ TurnOver(t)
  BY StepsOfScreen
<1>2. ASSUME Reads(t), Awaiting(screen[t]) PROVE HistoryInv'
  BY <1>2, RestingKeeps DEF Reads
<1>3. Posted(t) \/ Connected(t) \/ (\E messages : Taken(t, messages)) \/ Received(t) => Reads(t) /\ Awaiting(screen[t])
  BY DEF Posted, Connected, Taken, Received, Awaiting
<1>4. Interrupted(t) => HistoryInv'
  BY RestingKeeps DEF Interrupted, Awaiting
<1> QED BY <1>1, <1>2, <1>3, <1>4, TurningKeeps, ClearingKeeps, PromptingKeeps, FinishingKeeps

-----------------------------------------------------------------------------
(* The screen: what a stream tells.                                        *)

(* What a chunk makes of the emitter, whichever chunk it is. *)
LEMMA ChunkIsHeard ==
  ASSUME NEW C \in SUBSET Callings, OwnIds(C), NEW e, EmitterOf(C, e), NEW messages, ChunkOf(C, messages)
  PROVE  LET out == EmitAll(e, messages) IN
         /\ EmitterOf(C, out.emitter) /\ out.emitter.question = e.question
         /\ out.events \in Seq(Heard(C, e.question))
         /\ Announced(out.emitter) \subseteq Announced(e) \cup TellingIds(out.events)
         /\ \A i \in DOMAIN out.events :
              out.events[i].type = "retrieved_docs" /\ out.events[i].id \in {RetrieverCall} \cup QueryIds(out.emitter)
                => out.events[i].id \in Announced(e) \cup ToldBefore(out.events, i)
<1> DEFINE Goal(emitter, events) ==
       /\ EmitterOf(C, emitter) /\ emitter.question = e.question
       /\ events \in Seq(Heard(C, e.question))
       /\ Announced(emitter) \subseteq Announced(e) \cup TellingIds(events)
       /\ \A i \in DOMAIN events :
            events[i].type = "retrieved_docs" /\ events[i].id \in {RetrieverCall} \cup QueryIds(emitter)
              => events[i].id \in Announced(e) \cup ToldBefore(events, i)
<1>1. ASSUME NEW msg, messages = <<msg>>, msg.kind = "ai", msg.calls \in Seq(C)
      PROVE  Goal(EmitAll(e, messages).emitter, EmitAll(e, messages).events)
  <2>1. PICK out : out = EmitAi(e, msg)
    OBVIOUS
  <2>2. /\ EmitterOf(C, out.emitter)
        /\ out.emitter.question = e.question /\ out.emitter.synthetic = e.synthetic
        /\ out.events \in Seq(Heard(C, e.question))
        /\ Silent(out.events, "retrieved_docs")
        /\ QueryIds(out.emitter) \subseteq QueryIds(e) \cup TellingIds(out.events)
    BY <1>1, <2>1, AiIsHeard
  <2>3. Emit(e, msg) = out
    BY <1>1, <2>1 DEF Emit
  <2>4. EmitAll(e, messages) = [emitter |-> out.emitter, events |-> out.events]
    BY <1>1, <2>2, <2>3, EmitOne
  <2>5. PICK emitter, events : emitter = out.emitter /\ events = out.events
    OBVIOUS
  <2>6. Goal(emitter, events)
    BY <2>2, <2>5 DEF Announced, Silent
  <2> HIDE DEF Goal
  <2> QED BY <2>4, <2>5, <2>6
<1>2. ASSUME messages \in Seq(ToolAnswers(C))
      PROVE  Goal(EmitAll(e, messages).emitter, EmitAll(e, messages).events)
  <2>1. PICK emitter, events : emitter = EmitAll(e, messages).emitter /\ events = EmitAll(e, messages).events
    OBVIOUS
  <2>2. EmitterOf(C, emitter) /\ SameBut(e, emitter) /\ events \in Seq(AnswersHeard(C, e.question))
    BY <1>2, <2>1, ToolsAreHeard
  <2>3. emitter.question = e.question /\ QueryIds(emitter) = QueryIds(e) /\ Announced(emitter) = Announced(e)
    BY <2>2 DEF SameBut, QueryIds, Announced
  <2>4. PICK q, A : q = e.question /\ A = AnswersHeard(C, q)
    OBVIOUS
  <2>5. A \subseteq Heard(C, q) /\ events \in Seq(A)
    BY <2>2, <2>4 DEF AnswersHeard
  <2>6. events \in Seq(Heard(C, q))
    BY <2>5
  <2>7. ASSUME NEW i \in DOMAIN events, events[i].type = "retrieved_docs",
               events[i].id \in {RetrieverCall} \cup QueryIds(emitter)
        PROVE  events[i].id \in Announced(e)
    <3>1. events[i] \in A
      BY <2>5
    <3>2. PICK c \in Identified(C) : c.id = events[i].id
      BY <2>4, <2>7, <3>1 DEF AnswersHeard
    <3>3. c.id # RetrieverCall
      BY DEF OwnIds, Identified
    <3> QED BY <2>3, <2>7, <3>2, <3>3 DEF Announced
  <2>8. Goal(emitter, events)
    BY <2>2, <2>3, <2>4, <2>6, <2>7
  <2> HIDE DEF Goal
  <2> QED BY <2>1, <2>8
<1>3. ASSUME NEW some \in BOOLEAN, messages = <<RetrievedDocs(some)>>
      PROVE  Goal(EmitAll(e, messages).emitter, EmitAll(e, messages).events)
  <2>1. PICK out : out = Emit(e, RetrievedDocs(some))
    OBVIOUS
  <2>2. /\ EmitterOf(C, out.emitter)
        /\ out.emitter.question = e.question /\ out.emitter.queries = e.queries
        /\ out.events \in Seq(Heard(C, e.question))
        /\ out.emitter.synthetic => e.synthetic \/ RetrieverCall \in TellingIds(out.events)
        /\ \A i \in DOMAIN out.events :
             out.events[i].type = "retrieved_docs"
               => out.events[i].id \in Announced(e) \cup ToldBefore(out.events, i)
    BY <2>1, DocsAreHeard
  <2>3. EmitAll(e, messages) = [emitter |-> out.emitter, events |-> out.events]
    BY <1>3, <2>1, <2>2, EmitOne
  <2>4. PICK emitter, events : emitter = out.emitter /\ events = out.events
    OBVIOUS
  <2>5. QueryIds(emitter) = QueryIds(e)
    BY <2>2, <2>4 DEF QueryIds
  <2>6. Announced(emitter) \subseteq Announced(e) \cup TellingIds(events)
    <3>1. CASE ~ emitter.synthetic
      BY <2>5, <3>1 DEF Announced
    <3>2. CASE emitter.synthetic /\ e.synthetic
      BY <2>5, <3>2 DEF Announced
    <3>3. CASE emitter.synthetic /\ RetrieverCall \in TellingIds(events)
      BY <2>5, <3>3 DEF Announced
    <3> QED BY <2>2, <2>4, <3>1, <3>2, <3>3
  <2>7. Goal(emitter, events)
    BY <2>2, <2>4, <2>6
  <2> HIDE DEF Goal
  <2> QED BY <2>3, <2>4, <2>7
<1>4. Goal(EmitAll(e, messages).emitter, EmitAll(e, messages).events)
  <2> HIDE DEF Goal
  <2> QED BY <1>1, <1>2, <1>3 DEF ChunkOf
<1> QED BY <1>4

(* One event less on the wire. *)
LEMMA WireShortens ==
  ASSUME NEW S, NEW wire \in Seq(S), wire # <<>>
  PROVE  /\ Head(wire) \in S /\ Tail(wire) \in Seq(S) /\ Head(wire) = wire[1]
         /\ TellingIds(wire) \subseteq TellingIds(Tail(wire)) \cup (IF Head(wire).type = "tool_call" THEN {Head(wire).id} ELSE {})
         /\ \A i \in DOMAIN Tail(wire) :
              /\ i + 1 \in DOMAIN wire /\ Tail(wire)[i] = wire[i + 1]
              /\ ToldBefore(wire, i + 1) \subseteq ToldBefore(Tail(wire), i)
                                                    \cup (IF Head(wire).type = "tool_call" THEN {Head(wire).id} ELSE {})
<1>1. PICK n \in Nat : n = Len(wire) /\ DOMAIN wire = 1..n
  OBVIOUS
<1>2. n > 0
  BY <1>1
<1>3. PICK first, rest : first = Head(wire) /\ rest = Tail(wire)
  OBVIOUS
<1>4. /\ first = wire[1] /\ first \in S /\ rest \in Seq(S) /\ DOMAIN rest = 1..(n - 1)
      /\ \A i \in 1..(n - 1) : rest[i] = wire[i + 1]
  BY <1>1, <1>2, <1>3
<1>5. PICK heard : heard = IF first.type = "tool_call" THEN {first.id} ELSE {}
  OBVIOUS
<1>6. ASSUME NEW j \in 1..n, wire[j].type = "tool_call", wire[j].id \notin heard
      PROVE  j - 1 \in 1..(n - 1) /\ rest[j - 1] = wire[j]
  <2>1. j # 1
    BY <1>4, <1>5, <1>6
  <2>2. j - 1 \in 1..(n - 1) /\ (j - 1) + 1 = j
    BY <2>1
  <2> QED BY <1>4, <2>2
<1>7. TellingIds(wire) \subseteq TellingIds(rest) \cup heard
  <2>1. ASSUME NEW id \in TellingIds(wire), id \notin heard PROVE id \in TellingIds(rest)
    <3>1. PICK j \in 1..n : wire[j].type = "tool_call" /\ id = wire[j].id
      BY <1>1, <2>1 DEF TellingIds
    <3>2. j - 1 \in DOMAIN rest /\ rest[j - 1] = wire[j]
      BY <1>4, <1>6, <2>1, <3>1
    <3> QED BY <3>1, <3>2 DEF TellingIds
  <2> QED BY <2>1
<1>8. ASSUME NEW i \in DOMAIN rest
      PROVE  /\ i + 1 \in DOMAIN wire /\ rest[i] = wire[i + 1]
             /\ ToldBefore(wire, i + 1) \subseteq ToldBefore(rest, i) \cup heard
  <2>1. i \in 1..(n - 1) /\ i + 1 \in 1..n /\ (i + 1) - 1 = i
    BY <1>4
  <2>2. ASSUME NEW id \in ToldBefore(wire, i + 1), id \notin heard PROVE id \in ToldBefore(rest, i)
    <3>1. PICK j \in 1..i : wire[j].type = "tool_call" /\ id = wire[j].id
      BY <2>1, <2>2 DEF ToldBefore
    <3>2. j \in 1..n
      BY <2>1
    <3>3. j - 1 \in 1..(n - 1) /\ rest[j - 1] = wire[j]
      BY <1>6, <2>2, <3>1, <3>2
    <3>4. j - 1 \in 1..(i - 1)
      BY <2>1, <3>3
    <3> QED BY <3>1, <3>3, <3>4 DEF ToldBefore
  <2> QED BY <1>1, <1>4, <2>1, <2>2
<1> QED BY <1>3, <1>4, <1>5, <1>7, <1>8

(* The page hears an event of its stream. *)
LEMMA HearingOne ==
  ASSUME NEW C \in SUBSET Callings, OwnIds(C), NEW e, NEW previews, NEW wire, wire # <<>>,
         Truthful(previews), PreviewsOf(C, e.question, previews), wire \in Seq(Heard(C, e.question)),
         Announced(e) \subseteq Known(previews) \cup TellingIds(wire), InOrder(e, previews, wire),
         NEW told, told = IF Head(wire).type = "token" \/ Head(wire).type = "artifact_ready" THEN previews
                          ELSE HandleToolEvent(previews, Head(wire))
  PROVE  /\ Truthful(told) /\ PreviewsOf(C, e.question, told) /\ Tail(wire) \in Seq(Heard(C, e.question))
         /\ Announced(e) \subseteq Known(told) \cup TellingIds(Tail(wire)) /\ InOrder(e, told, Tail(wire))
<1>1. PICK S, event, rest : S = Heard(C, e.question) /\ event = Head(wire) /\ rest = Tail(wire)
  OBVIOUS
<1>2. PICK heard : heard = IF event.type = "tool_call" THEN {event.id} ELSE {}
  OBVIOUS
<1>3. /\ event \in S /\ rest \in Seq(S)
      /\ TellingIds(wire) \subseteq TellingIds(rest) \cup heard
      /\ \A i \in DOMAIN rest : /\ i + 1 \in DOMAIN wire /\ rest[i] = wire[i + 1]
                                /\ ToldBefore(wire, i + 1) \subseteq ToldBefore(rest, i) \cup heard
  BY <1>1, <1>2, WireShortens
<1>4. /\ Truthful(told) /\ PreviewsOf(C, e.question, told)
      /\ Known(previews) \subseteq Known(told) /\ heard \subseteq Known(told)
  <2>1. CASE event.type = "token" \/ event.type = "artifact_ready"
    BY <1>1, <1>2, <2>1
  <2>2. CASE event.type # "token" /\ event.type # "artifact_ready"
    <3>1. told = HandleToolEvent(previews, event)
      BY <1>1, <2>2
    <3>2. /\ PreviewsOf(C, e.question, told) /\ Truthful(told)
          /\ Known(previews) \subseteq Known(told)
          /\ event.type = "tool_call" => event.id \in Known(told)
      BY <1>1, <1>3, <2>2, <3>1, EventIsTold
    <3> QED BY <1>2, <3>2
  <2> QED BY <2>1, <2>2
<1>5. Announced(e) \subseteq Known(told) \cup TellingIds(rest)
  BY <1>3, <1>4
<1>6. InOrder(e, told, rest)
  <2>1. ASSUME NEW i \in DOMAIN rest, rest[i].type = "retrieved_docs", rest[i].id \in {RetrieverCall} \cup QueryIds(e)
        PROVE  rest[i].id \in Known(told) \cup ToldBefore(rest, i)
    <3>1. wire[i + 1].id \in Known(previews) \cup ToldBefore(wire, i + 1)
      BY <1>3, <2>1 DEF InOrder
    <3> QED BY <1>3, <1>4, <3>1
  <2> QED BY <2>1 DEF InOrder
<1> QED BY <1>1, <1>3, <1>4, <1>5, <1>6

(* A tab that reads no stream. *)
LEMMA RestingHears ==
  ASSUME NEW C, NEW tab, tab.stage # "streaming", tab.stream.wire = <<>>, Truthful(tab.previews),
         tab.stage \in {"posting", "connecting"} => tab.previews = {}
  PROVE  TabTruthful(C, tab)
BY DEF TabTruthful

(* A stream that opens has told nothing yet. *)
LEMMA ConnectingHears ==
  ASSUME ScreenTyped, StreamInv, NEW t \in Tabs, Connected(t)
  PROVE  TabTruthful(CallsOf(scene), screen'[t])
<1>1. PICK tab, C : tab = screen'[t] /\ C = CallsOf(scene)
  OBVIOUS
<1>2. PICK n : n = sessions[screen[t].sid]
  OBVIOUS
<1>3. /\ tab.stage = "streaming" /\ tab.previews = screen[t].previews /\ tab.stream.wire = <<>>
      /\ tab.stream.emitter = Emitter(turns[n].question) /\ n # 0 /\ screen[t].stage = "connecting" /\ Stays(t)
  BY <1>1, <1>2 DEF Connected, Reads
<1>4. tab.previews = {}
  <2>1. TabTruthful(C, screen[t])
    BY <1>1 DEF StreamInv
  <2> QED BY <1>3, <2>1 DEF TabTruthful
<1>5. turns[n] \in TurnsOf(scene)
  <2>1. screen[t].sid \in Sids
    BY <1>3 DEF ScreenTyped, TabTyped
  <2>2. PICK N \in Nat : N = Len(turns) /\ DOMAIN turns = 1..N /\ \A k \in DOMAIN turns : turns[k] \in TurnsOf(scene)
    BY TurnsListed
  <2>3. n \in 0..N
    BY <1>2, <2>1, <2>2 DEF ScreenTyped
  <2> QED BY <1>3, <2>2, <2>3
<1>6. PICK q \in QueryTexts : q = turns[n].question
  <2>1. scene.questions \subseteq QueryTexts
    BY CallsAreTyped DEF ScreenTyped
  <2> QED BY <1>5, <2>1 DEF TurnsOf
<1>7. PICK e : e = Emitter(q)
  OBVIOUS
<1>8. e.question = q /\ e.queries = <<>> /\ e.emitted = {} /\ e.synthetic = FALSE
  BY <1>7 DEF Emitter
<1>9. EmitterOf(C, e)
  <2>1. <<>> \in Seq(Identified(C))
    OBVIOUS
  <2>2. e = [question |-> e.question, queries |-> e.queries, emitted |-> e.emitted, synthetic |-> e.synthetic]
    BY <1>7 DEF Emitter
  <2> QED BY <1>6, <1>8, <2>1, <2>2 DEF EmitterOf
<1>10. Announced(e) = {}
  <2>1. DOMAIN e.queries = {}
    BY <1>8
  <2> QED BY <1>8, <2>1 DEF Announced, QueryIds
<1>11. <<>> \in Seq(Heard(C, q)) /\ InOrder(e, {}, <<>>) /\ PreviewsOf(C, q, {}) /\ Truthful({})
  BY DEF InOrder, PreviewsOf, Truthful
<1>12. tab.stream.emitter = e
  BY <1>3, <1>6, <1>7
<1>13. TabTruthful(C, tab)
  BY <1>3, <1>4, <1>8, <1>9, <1>10, <1>11, <1>12 DEF TabTruthful
<1> QED BY <1>1, <1>13

(* A chunk is put on the wire behind what the emitter had announced. *)
LEMMA TakingHears ==
  ASSUME ScreenTyped, StreamInv, NEW t \in Tabs, NEW messages,
         Taken(t, messages), ChunkOf(CallsOf(scene), messages)
  PROVE  TabTruthful(CallsOf(scene), screen'[t])
<1>1. PICK tab, C : tab = screen'[t] /\ C = CallsOf(scene)
  OBVIOUS
<1>2. C \in SUBSET Callings /\ OwnIds(C)
  BY <1>1, CallsAreTyped DEF ScreenTyped
<1>3. PICK e, previews : e = screen[t].stream.emitter /\ previews = screen[t].previews
  OBVIOUS
<1>4. /\ EmitterOf(C, e) /\ PreviewsOf(C, e.question, previews) /\ Truthful(previews)
      /\ Announced(e) \subseteq Known(previews)
  <2>1. TabTruthful(C, screen[t]) /\ screen[t].stage = "streaming" /\ screen[t].stream.wire = <<>>
    BY <1>1 DEF StreamInv, Taken
  <2>2. TellingIds(<<>>) = {}
    BY DEF TellingIds
  <2> QED BY <1>3, <2>1, <2>2 DEF TabTruthful
<1>5. PICK emitter, events : emitter = EmitAll(e, messages).emitter /\ events = EmitAll(e, messages).events
  OBVIOUS
<1>6. /\ EmitterOf(C, emitter) /\ emitter.question = e.question
      /\ events \in Seq(Heard(C, e.question))
      /\ Announced(emitter) \subseteq Announced(e) \cup TellingIds(events)
      /\ \A i \in DOMAIN events :
           events[i].type = "retrieved_docs" /\ events[i].id \in {RetrieverCall} \cup QueryIds(emitter)
             => events[i].id \in Announced(e) \cup ToldBefore(events, i)
  BY <1>1, <1>2, <1>4, <1>5, ChunkIsHeard
<1>7. InOrder(emitter, previews, events)
  BY <1>4, <1>6 DEF InOrder
<1>8. /\ tab.stage = "streaming" /\ tab.previews = previews
      /\ tab.stream.emitter = emitter /\ tab.stream.wire = events
  BY <1>1, <1>3, <1>5 DEF Taken
<1>9. TabTruthful(C, tab)
  BY <1>4, <1>6, <1>7, <1>8 DEF TabTruthful
<1> QED BY <1>1, <1>9

(* The event received is the first of the wire. *)
LEMMA ReceivingHears ==
  ASSUME ScreenTyped, StreamInv, NEW t \in Tabs, Received(t)
  PROVE  TabTruthful(CallsOf(scene), screen'[t])
<1>1. PICK tab, C : tab = screen'[t] /\ C = CallsOf(scene)
  OBVIOUS
<1>2. C \in SUBSET Callings /\ OwnIds(C)
  BY <1>1, CallsAreTyped DEF ScreenTyped
<1>3. PICK e, previews, wire : e = screen[t].stream.emitter /\ previews = screen[t].previews /\ wire = screen[t].stream.wire
  OBVIOUS
<1>4. /\ EmitterOf(C, e) /\ PreviewsOf(C, e.question, previews) /\ Truthful(previews)
      /\ wire # <<>> /\ wire \in Seq(Heard(C, e.question))
      /\ Announced(e) \subseteq Known(previews) \cup TellingIds(wire) /\ InOrder(e, previews, wire)
  <2>1. TabTruthful(C, screen[t]) /\ screen[t].stage = "streaming" /\ wire # <<>>
    BY <1>1, <1>3 DEF StreamInv, Received
  <2> QED BY <1>3, <2>1 DEF TabTruthful
<1>5. PICK told : told = tab.previews
  OBVIOUS
<1>6. /\ tab.stage = "streaming" /\ tab.stream.emitter = e /\ tab.stream.wire = Tail(wire)
      /\ told = IF Head(wire).type = "token" \/ Head(wire).type = "artifact_ready" THEN previews
                ELSE HandleToolEvent(previews, Head(wire))
  BY <1>1, <1>3, <1>5 DEF Received
<1>7. /\ Truthful(told) /\ PreviewsOf(C, e.question, told) /\ Tail(wire) \in Seq(Heard(C, e.question))
      /\ Announced(e) \subseteq Known(told) \cup TellingIds(Tail(wire)) /\ InOrder(e, told, Tail(wire))
  BY <1>2, <1>4, <1>6, HearingOne
<1>8. TabTruthful(C, tab)
  BY <1>4, <1>5, <1>6, <1>7 DEF TabTruthful
<1> QED BY <1>1, <1>8

(* Every step keeps what is heard, on the wire and on the page. *)
LEMMA HearingKept ==
  ASSUME ScreenTyped, StreamInv, ScreenNext
  PROVE  StreamInv'
<1>1. PICK t \in Tabs :
        \/ \E sid \in Sids : Turned(t, sid)
        \/ Clearing(t)
        \/ Interrupted(t)
        \/ \E moved : Prompted(t, moved)
        \/ Posted(t)
        \/ Connected(t)
        \/ \E messages : Taken(t, messages) /\ ChunkOf(CallsOf(scene), messages)
        \/ Received(t)
        \/ TurnOver(t)
  BY StepsOfScreen
<1>2. scene' = scene
  BY StepsOfScreen
<1>3. Only(t)
  BY <1>1 DEF Turned, Clearing, Interrupted, Prompted, Posted, Connected, Taken, Received, TurnOver, Stays, Reads
<1>4. PICK C : C = CallsOf(scene)
  OBVIOUS
<1>5. \A u \in Tabs : TabTruthful(C, screen[u])
  BY <1>4 DEF StreamInv
<1>6. NoStream.wire = <<>> /\ Truthful({})
  BY DEF NoStream, Truthful
<1>7. Truthful(screen[t].previews)
  BY <1>5 DEF TabTruthful
<1>8. ASSUME \/ \E sid \in Sids : Turned(t, sid)
             \/ Clearing(t)
             \/ \E moved : Prompted(t, moved)
      PROVE  TabTruthful(C, screen'[t])
  <2>1. screen'[t].stage # "streaming" /\ screen'[t].stream.wire = <<>> /\ screen'[t].previews = {}
    BY <1>6, <1>8 DEF Turned, Clearing, Prompted
  <2> QED BY <1>6, <2>1, RestingHears
<1>9. ASSUME Interrupted(t) \/ TurnOver(t) PROVE TabTruthful(C, screen'[t])
  <2>1. screen'[t].stage = "idle" /\ screen'[t].stream.wire = <<>> /\ screen'[t].previews = screen[t].previews
    BY <1>6, <1>9 DEF Interrupted, TurnOver
  <2> QED BY <1>7, <2>1, RestingHears
<1>10. ASSUME Posted(t) PROVE TabTruthful(C, screen'[t])
  <2>1. /\ screen'[t].stage \in {"connecting", "idle"} /\ screen'[t].previews = screen[t].previews
        /\ screen'[t].stream = screen[t].stream /\ screen[t].stage = "posting"
    BY <1>10 DEF Posted
  <2>2. screen[t].previews = {} /\ screen[t].stream.wire = <<>>
    BY <1>5, <2>1 DEF TabTruthful
  <2> QED BY <1>6, <2>1, <2>2, RestingHears
<1>11. TabTruthful(C, screen'[t])
  BY <1>1, <1>4, <1>8, <1>9, <1>10, ConnectingHears, TakingHears, ReceivingHears
<1>12. ASSUME NEW u \in Tabs PROVE TabTruthful(C, screen'[u])
  <2>1. CASE u # t
    <3>1. screen'[u] = screen[u]
      BY <1>3, <2>1 DEF Only
    <3> QED BY <1>5, <3>1
  <2> QED BY <1>11, <2>1
<1> QED BY <1>2, <1>4, <1>12 DEF StreamInv

-----------------------------------------------------------------------------

ScreenInv == ScreenTyped /\ PromptsApart /\ HistoryInv /\ StreamInv

(* No tab is open, no session kept. *)
LEMMA ScreenStarts == ScreenInit => ScreenInv
<1>1. SUFFICES ASSUME ScreenInit PROVE ScreenInv
  OBVIOUS
<1>2. /\ scene \in Scenes /\ store = [s \in Sids |-> <<>>] /\ cleared = [s \in Sids |-> 0]
      /\ sessions = [s \in Sids |-> 0] /\ turns = <<>> /\ screen = [t \in Tabs |-> Blank]
  BY <1>1 DEF ScreenInit
<1>3. PICK blank : blank = Blank
  OBVIOUS
<1>4. /\ DOMAIN blank = TabFields /\ DOMAIN blank.stream = {"turn", "emitter", "wire"}
      /\ blank.stage = "closed" /\ blank.sid = "" /\ blank.messages = <<>> /\ blank.registry = {}
      /\ blank.seen = 0 /\ blank.previews = {} /\ blank.stream.wire = <<>>
  BY <1>3 DEF Blank, NoStream, TabFields
<1>5. \A t \in Tabs : screen[t] = blank
  BY <1>2, <1>3
<1>6. Len(turns) = 0 /\ DOMAIN turns = {}
  BY <1>2
<1>7. ScreenTyped
  <2>1. <<>> \in Seq(Messages(0)) /\ <<>> \in Seq(TurnsOf(scene))
    OBVIOUS
  <2>2. scene.clears \in Nat
    BY <1>2, ScenesAssumption
  <2>3. TabTyped(blank, 0)
    <3>1. blank.messages \in Seq(Messages(0)) /\ blank.seen \in Nat /\ blank.registry \subseteq Sids
      <4>1. blank.messages \in Seq(Messages(0))
        BY <1>4, <2>1
      <4>2. blank.seen \in Nat
        BY <1>3, Zenon, 0 \in Nat DEF Blank
      <4>3. blank.registry \subseteq Sids
        BY <1>4
      <4> QED BY <4>1, <4>2, <4>3
    <3>2. ~ Awaiting(blank) /\ blank.stage # "streaming" /\ blank.stage \in ScreenStages
      BY <1>4 DEF Awaiting, ScreenStages
    <3> QED BY <1>4, <3>1, <3>2 DEF TabTyped
  <2>4. store \in [Sids -> Seq(Messages(0))] /\ cleared \in [Sids -> 0..scene.clears] /\ sessions \in [Sids -> 0..0]
    BY <1>2, <2>1, <2>2
  <2>5. turns \in Seq(TurnsOf(scene)) /\ DOMAIN screen = Tabs
    BY <1>2, <2>1
  <2> QED BY <1>2, <1>5, <1>6, <2>3, <2>4, <2>5 DEF ScreenTyped
<1>8. PromptsApart
  BY <1>4, <1>5 DEF PromptsApart, Awaiting
<1>9. HistoryInv
  <2>1. IsInjective(<<>>) /\ (\A sid : Own(<<>>, sid) /\ Paired(<<>>, sid))
    BY DEF IsInjective, Own, Paired
  <2>2. \A s \in Sids : store[s] = <<>>
    BY <1>2
  <2>3. \A s \in Sids : StoreKept(s, store[s], cleared[s])
    BY <2>1, <2>2 DEF StoreKept
  <2> QED BY <1>4, <1>5, <2>3 DEF HistoryInv, Awaiting
<1>10. StreamInv
  <2>1. Truthful({})
    BY DEF Truthful
  <2>2. TabTruthful(CallsOf(scene), blank)
    BY <1>4, <2>1, RestingHears
  <2> QED BY <1>5, <2>2 DEF StreamInv
<1> QED BY <1>7, <1>8, <1>9, <1>10 DEF ScreenInv

(* So the four parts are kept together. *)
LEMMA ScreenSteps == ScreenInv /\ [ScreenNext]_screenVars => ScreenInv'
<1>1. ASSUME ScreenInv, ScreenNext PROVE ScreenInv'
  BY <1>1, TypesKept, PromptsKept, HistoryKept, HearingKept DEF ScreenInv
<1>2. ASSUME ScreenInv, UNCHANGED screenVars PROVE ScreenInv'
  <2>1. /\ scene' = scene /\ store' = store /\ cleared' = cleared /\ sessions' = sessions
        /\ turns' = turns /\ screen' = screen
    BY <1>2 DEF screenVars
  <2>2. ScreenTyped' /\ PromptsApart'
    BY <1>2, <2>1 DEF ScreenInv, ScreenTyped, PromptsApart
  <2>3. HistoryInv'
    BY <1>2, <2>1 DEF ScreenInv, HistoryInv, Unanswered
  <2>4. StreamInv'
    BY <1>2, <2>1 DEF ScreenInv, StreamInv
  <2> QED BY <2>2, <2>3, <2>4 DEF ScreenInv
<1> QED BY <1>1, <1>2

(* The invariant of the screen. *)
LEMMA ScreenHolds == ScreenSpec => []ScreenInv
BY ScreenStarts, ScreenSteps, PTL DEF ScreenSpec

(* The page's types. *)
THEOREM ScreenTypes == ScreenSpec => []ScreenTypeOK
<1>1. ScreenInv => ScreenTypeOK
  <2>1. SUFFICES ASSUME ScreenInv PROVE ScreenTypeOK
    OBVIOUS
  <2>2. PICK N \in Nat : N = Len(turns) /\ DOMAIN turns = 1..N /\ \A n \in DOMAIN turns : turns[n] \in TurnsOf(scene)
    BY <2>1, TurnsListed DEF ScreenInv
  <2>3. store \in [Sids -> Seq([role : {"user", "assistant"}, sid : Sids, of : DOMAIN turns])]
    BY <2>1, <2>2 DEF ScreenInv, ScreenTyped, Messages
  <2>4. \A n \in DOMAIN turns : turns[n].tools \subseteq Tools
    BY <2>2 DEF TurnsOf
  <2>5. \A t \in Tabs : /\ screen[t].stage \in {"closed", "idle", "posting", "connecting", "streaming"}
                        /\ screen[t].stage # "closed" => screen[t].sid \in screen[t].registry
    BY <2>1 DEF ScreenInv, ScreenTyped, TabTyped, ScreenStages
  <2> QED BY <2>1, <2>3, <2>4, <2>5 DEF ScreenTypeOK, ScreenInv, ScreenTyped
<1> QED BY <1>1, ScreenHolds, PTL

(* A tab shows the history of its own session and nothing else. *)
(* What HistoryIsOfSession says of a tab. *)
Shown(tab) ==
  /\ \A i \in DOMAIN tab.messages :
       /\ tab.messages[i].sid = tab.sid
       /\ tab.messages[i].role = "assistant" /\ cleared[tab.sid] = 0
            => \E j \in 1..(i - 1) : tab.messages[j] = Message("user", tab.sid, tab.messages[i].of)
  /\ tab.sid \in Sids /\ tab.seen = cleared[tab.sid]
       => /\ IsInjective(store[tab.sid]) /\ Range(tab.messages) \subseteq Range(store[tab.sid])
          /\ \A i, j \in DOMAIN tab.messages, k, l \in DOMAIN store[tab.sid] :
               i < j /\ store[tab.sid][k] = tab.messages[i] /\ store[tab.sid][l] = tab.messages[j]
                 => k < l

(* A page shows messages of its session only, each once, in the order they were kept
   in, with every answer below its prompt (render_chat, SessionStore), as long as
   nobody else has cleared the session. *)
THEOREM HistoryIsKept == ScreenSpec => []HistoryIsOfSession
<1>1. ScreenInv => HistoryIsOfSession
  <2>1. SUFFICES ASSUME ScreenInv, NEW t \in Tabs PROVE Shown(screen[t])
    BY DEF HistoryIsOfSession, Shown
  <2>2. PICK tab : tab = screen[t]
    OBVIOUS
  <2>3. CASE tab.stage = "closed"
    <3>1. tab.messages = <<>> /\ tab.sid = ""
      BY <2>1, <2>2, <2>3 DEF ScreenInv, ScreenTyped, TabTyped
    <3>2. "" \notin Sids
      BY ScenesAssumption, Zenon
    <3>4. DOMAIN <<>> = {}
      OBVIOUS
    <3> QED BY <2>2, <3>1, <3>2, <3>4 DEF Shown
  <2>4. CASE tab.stage # "closed"
    <3>1. PICK sid \in Sids : sid = tab.sid
      BY <2>1, <2>2, <2>4 DEF ScreenInv, ScreenTyped, TabTyped
    <3>2. TabKept(tab, store[sid], cleared[sid]) /\ StoreKept(sid, store[sid], cleared[sid])
      BY <2>1, <2>2, <2>4, <3>1 DEF ScreenInv, HistoryInv
    <3>3. Shown(tab)
      BY <3>1, <3>2 DEF Shown, TabKept, StoreKept, Own, Paired, Within
    <3> QED BY <2>2, <3>3
  <2> QED BY <2>3, <2>4
<1> QED BY <1>1, ScreenHolds, PTL

(* The panels of the previews. *)
LEMMA PanelsOf == ASSUME NEW previews, NEW panel \in RenderToolCalls(previews)
 PROVE 
        \/ \E p \in previews : panel = Panel("preview", p, p.question)
        \/ \E p \in previews : \E of \in p.chunksOf : panel = Panel("citations", p, of)
        \/ \E p \in previews : panel = Panel("web results", p, "")
<1>1. panel \in ({Panel("preview", p, p.question) : p \in previews}
    \cup (UNION {{Panel("citations", p, of) : of \in p.chunksOf} : p \in previews})
    \cup {Panel("web results", p, "") : p \in {q \in previews : q.full}})
  BY Zenon DEF RenderToolCalls
<1>2. \/ panel \in {Panel("preview", p, p.question) : p \in previews}
      \/ panel \in UNION {{Panel("citations", p, of) : of \in p.chunksOf} : p \in previews}
      \/ panel \in {Panel("web results", p, "") : p \in {q \in previews : q.full}}
  BY <1>1, Zenon
<1>3. CASE panel \in {Panel("preview", p, p.question) : p \in previews}
  BY <1>3
<1>4. CASE panel \in UNION {{Panel("citations", p, of) : of \in p.chunksOf} : p \in previews}
  <2>1. PICK c \in {{Panel("citations", p, of) : of \in p.chunksOf} : p \in previews} : panel \in c
    BY <1>4
  <2>2. PICK p \in previews : c = {Panel("citations", p, of) : of \in p.chunksOf}
    BY <2>1
  <2>3. \E of \in p.chunksOf : panel = Panel("citations", p, of)
    BY <2>1, <2>2
  <2> QED BY <2>3
<1>5. CASE panel \in {Panel("web results", p, "") : p \in {q \in previews : q.full}}
  BY <1>5
<1> QED BY <1>2, <1>3, <1>4, <1>5

(* What the page shows of a retrieval is of the question its preview names. *)
THEOREM PreviewsAreTruthful == ScreenSpec => []PreviewsTruthful
<1>1. ScreenInv => PreviewsTruthful
  <2>1. SUFFICES ASSUME ScreenInv, NEW t \in Tabs
                 PROVE  LET wire == screen[t].stream.wire IN
    /\ \A panel \in RenderToolCalls(screen[t].previews) :
         panel.kind = "citations" => NormOf[panel.of] = NormOf[panel.question]
    /\ \A i \in DOMAIN wire :
         wire[i].type = "retrieved_docs"
           /\ wire[i].id \in {RetrieverCall} \cup {c.id : c \in Range(screen[t].stream.emitter.queries)}
           => wire[i].id \in Known(screen[t].previews)
                              \cup {wire[j].id : j \in {k \in 1..(i - 1) : wire[k].type = "tool_call"}}
    BY DEF PreviewsTruthful
  <2>2. PICK tab : tab = screen[t] /\ TabTruthful(CallsOf(scene), tab)
    BY <2>1 DEF ScreenInv, StreamInv
  <2>3. PICK previews, wire, e : previews = tab.previews /\ wire = tab.stream.wire /\ e = tab.stream.emitter
    OBVIOUS
  <2>4. Truthful(previews)
    BY <2>2, <2>3 DEF TabTruthful
  <2>5. ASSUME NEW panel \in RenderToolCalls(previews), panel.kind = "citations"
        PROVE  NormOf[panel.of] = NormOf[panel.question]
    <3>1. panel.kind # "preview" /\ panel.kind # "web results"
      BY <2>5
    <3>4. \A p : panel # Panel("preview", p, p.question) /\ panel # Panel("web results", p, "")
      <4>1. ASSUME NEW p, panel = Panel("preview", p, p.question) PROVE FALSE
        <5>1. panel.kind = "preview"
          BY <4>1 DEF Panel
        <5> QED BY <3>1, <5>1
      <4>2. ASSUME NEW p, panel = Panel("web results", p, "") PROVE FALSE
        <5>1. panel.kind = "web results"
          BY <4>2 DEF Panel
        <5> QED BY <3>1, <5>1
      <4> QED BY <4>1, <4>2
    <3>5. \E p \in previews : \E of \in p.chunksOf : panel = Panel("citations", p, of)
      BY <3>4, PanelsOf
    <3>6. PICK p \in previews : \E of \in p.chunksOf : panel = Panel("citations", p, of)
      BY <3>5
    <3>7. PICK of \in p.chunksOf : panel = Panel("citations", p, of)
      BY <3>6
    <3>3. panel.of = of /\ panel.question = p.question
      BY <3>7 DEF Panel
    <3> QED BY <2>4, <3>3 DEF Truthful
  <2>6. ASSUME NEW i \in DOMAIN wire, wire[i].type = "retrieved_docs",
               wire[i].id \in {RetrieverCall} \cup {c.id : c \in Range(e.queries)}
        PROVE  wire[i].id \in Known(previews) \cup {wire[j].id : j \in {k \in 1..(i - 1) : wire[k].type = "tool_call"}}
    <3>1. CASE tab.stage # "streaming"
      <4>1. DOMAIN wire = {}
        BY <2>2, <2>3, <3>1 DEF TabTruthful
      <4> QED BY <2>6, <4>1
    <3>2. CASE tab.stage = "streaming"
      <4>1. InOrder(e, previews, wire)
        BY <2>2, <2>3, <3>2 DEF TabTruthful
      <4>2. {c.id : c \in Range(e.queries)} \subseteq QueryIds(e)
        BY DEF QueryIds, Range
      <4> QED BY <2>6, <4>1, <4>2 DEF InOrder, ToldBefore
    <3> QED BY <3>1, <3>2
  <2> QED BY <2>2, <2>3, <2>5, <2>6
<1> QED BY <1>1, ScreenHolds, PTL
=============================================================================
