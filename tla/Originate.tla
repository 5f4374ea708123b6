------------------------------ MODULE Originate ------------------------------
(***************************************************************************)
(* Outgoing calls of one SIM: originate_call and hangup_call of             *)
(* ami_transport.rs, which manager.rs and api/mod.rs hand on unchanged.     *)
(*                                                                         *)
(* The transport knows its calls by one number, which it remembers when     *)
(* Asterisk has answered.  A hang-up reads the number, lists the channels,  *)
(* hangs up the one whose extension it is, and forgets the number, with     *)
(* other requests in between.  Asterisk may deal with an action although    *)
(* its caller hears of an error or a timeout (see AmiRpc.tla).              *)
(*                                                                         *)
(* The specification is CallsSpec, so that CallProofs can extend this       *)
(* module and CallRecording, the other end of a call.                       *)
(***************************************************************************)
EXTENDS Naturals, Sequences, TLC

CONSTANTS Phone,     \* numbers
          None,      \* no number
          Request,   \* concurrent requests
          MaxOps     \* bound: requests begun

ASSUME Domains == None \notin Phone /\ MaxOps \in Nat

VARIABLES
    pending,    \* pending_phone
    dialled,    \* the numbers of the calls Asterisk has made, in order
    live,       \* the calls that are up, by their place in dialled
    job,        \* what each request is doing
    ops,
    newest,     \* history: the call whose number was remembered last, or 0
    overtaken,  \* history: a hang-up begun earlier has forgotten that number
    hung,       \* history: pairs of a remembered call and one hung up on its account
    doubtful    \* history: remembered calls whose hang-ups overlapped or failed

callVars == <<pending, dialled, live, job, ops, newest, overtaken, hung, doubtful>>
History == <<newest, overtaken, hung, doubtful>>

-----------------------------------------------------------------------------
Made == DOMAIN dialled

Idle == [pc |-> "idle"]
Dials == [pc : {"dial"}, phone : Phone] \cup [pc : {"dialled"}, phone : Phone, call : Made]
\* on (history): the call whose number the request has read; late (history):
\* another number has been remembered since.
Hangs == [pc : {"list"}, phone : Phone, on : Made, late : BOOLEAN]
           \cup [pc : {"hangup", "forget"}, phone : Phone, on : Made, late : BOOLEAN, call : Made]

CallsTypeOK ==
    /\ pending \in Phone \cup {None}
    /\ dialled \in Seq(Phone)
    /\ live \subseteq Made
    /\ job \in [Request -> {Idle} \cup Dials \cup Hangs]
    /\ ops \in 0..MaxOps
    /\ newest \in Made \cup {0}
    /\ overtaken \in BOOLEAN
    /\ hung \subseteq Made \X Made
    /\ doubtful \subseteq Made

CallsInit ==
    /\ pending = None
    /\ dialled = <<>>
    /\ live = {}
    /\ job = [t \in Request |-> Idle]
    /\ ops = MaxOps
    /\ newest = 0
    /\ overtaken = FALSE
    /\ hung = {}
    /\ doubtful = {}

-----------------------------------------------------------------------------
Become(t, next) == job' = [job EXCEPT ![t] = next]
Hanging(t) == job[t].pc \in {"list", "hangup", "forget"}

Ring(n) ==
    /\ dialled' = Append(dialled, n)
    /\ live' = live \cup {Len(dialled) + 1}

(* originate_call.                                                         *)

MakeCall(t, n) ==
    /\ job[t] = Idle
    /\ ops > 0
    /\ ops' = ops - 1
    /\ Become(t, [pc |-> "dial", phone |-> n])
    /\ UNCHANGED <<pending, dialled, live, History>>

\* Asterisk makes the call and says so.
Place(t) ==
    /\ job[t].pc = "dial"
    /\ Ring(job[t].phone)
    /\ Become(t, [pc |-> "dialled", phone |-> job[t].phone, call |-> Len(dialled) + 1])
    /\ UNCHANGED <<pending, ops, History>>

\* The caller gets an error: Asterisk has refused, the connection is down, or
\* the answer is late or lost and the call is made all the same.
DialFails(t) ==
    /\ \/ /\ job[t].pc = "dial"
          /\ Ring(job[t].phone) \/ UNCHANGED <<dialled, live>>
       \/ job[t].pc = "dialled" /\ UNCHANGED <<dialled, live>>
    /\ Become(t, Idle)
    /\ UNCHANGED <<pending, ops, History>>

\* The answer has arrived: the number is remembered and the request returns.
RememberNumber(t) ==
    /\ job[t].pc = "dialled"
    /\ pending' = job[t].phone
    /\ newest' = job[t].call
    /\ overtaken' = FALSE
    /\ job' = [u \in Request |-> IF u = t THEN Idle
                                 ELSE IF Hanging(u) THEN [job[u] EXCEPT !.late = TRUE]
                                 ELSE job[u]]
    /\ UNCHANGED <<dialled, live, ops, hung, doubtful>>

-----------------------------------------------------------------------------
(* hangup_call.                                                            *)

\* The number is read.  Without one the request succeeds at once.
HangUpCall(t) ==
    /\ job[t] = Idle
    /\ pending # None
    /\ ops > 0
    /\ ops' = ops - 1
    /\ Become(t, [pc |-> "list", phone |-> pending, on |-> newest, late |-> FALSE])
    /\ doubtful' = IF \E u \in Request : Hanging(u) /\ job[u].on = newest
                   THEN doubtful \cup {newest} ELSE doubtful
    /\ UNCHANGED <<pending, dialled, live, newest, overtaken, hung>>

\* "core show channels": the one line that is left of the answer is that of a
\* channel from-sip has for this number.
Find(t) ==
    /\ job[t].pc = "list"
    /\ \E c \in live :
          /\ dialled[c] = job[t].phone
          /\ Become(t, [pc |-> "hangup", phone |-> job[t].phone, on |-> job[t].on,
                        late |-> job[t].late, call |-> c])
    /\ UNCHANGED <<pending, dialled, live, ops, History>>

\* Mutant of NotFound: a call that is not found is taken for ended.
BugForgetUnfound(t) ==
    /\ job[t].pc = "list"
    /\ Become(t, Idle)
    /\ pending' = None
    /\ UNCHANGED <<dialled, live, ops, History>>

\* It is another channel's, there is none, or no answer within five seconds:
\* the request succeeds and has done nothing.
NotFound(t) ==
    /\ job[t].pc = "list"
    /\ Become(t, Idle)
    /\ UNCHANGED <<pending, dialled, live, ops, History>>

Cut(t) ==
    /\ live' = live \ {job[t].call}
    /\ hung' = hung \cup {<<job[t].on, c>> : c \in {job[t].call} \cap live}

\* Asterisk hangs up, or says that there is no such channel (any more).
HungUp(t) ==
    /\ job[t].pc = "hangup"
    /\ Cut(t)
    /\ Become(t, [job[t] EXCEPT !.pc = "forget"])
    /\ UNCHANGED <<pending, dialled, ops, newest, overtaken, doubtful>>

\* No answer within five seconds, or no connection: the request fails and keeps
\* the number, hung up or not.  So does one whose client goes away meanwhile.
HangUpFails(t) ==
    /\ \/ job[t].pc = "hangup" /\ Cut(t)
       \/ job[t].pc \in {"hangup", "forget"} /\ UNCHANGED <<live, hung>>
    /\ Become(t, Idle)
    /\ doubtful' = doubtful \cup {job[t].on}
    /\ UNCHANGED <<pending, dialled, ops, newest, overtaken>>

\* Mutant of Forget: the number is kept.
BugKeepNumber(t) ==
    /\ job[t].pc = "forget"
    /\ Become(t, Idle)
    /\ UNCHANGED <<pending, dialled, live, ops, History>>

\* The number is forgotten, whatever it is by now.
Forget(t) ==
    /\ job[t].pc = "forget"
    /\ pending' = None
    /\ overtaken' = (overtaken \/ job[t].late)
    /\ Become(t, Idle)
    /\ UNCHANGED <<dialled, live, ops, newest, hung, doubtful>>

\* A party hangs up, or the dialplan ends.
End(c) ==
    /\ c \in live
    /\ live' = live \ {c}
    /\ UNCHANGED <<pending, dialled, job, ops, History>>

Step(t) ==
    \/ Place(t) \/ DialFails(t) \/ RememberNumber(t)
    \/ Find(t) \/ NotFound(t) \/ HungUp(t) \/ HangUpFails(t) \/ Forget(t)

CallsNext ==
    \/ \E t \in Request : (\E n \in Phone : MakeCall(t, n)) \/ HangUpCall(t) \/ Step(t)
    \/ \E c \in Made : End(c)

CallsSpec == CallsInit /\ [][CallsNext]_callVars

CallsSymmetry == Permutations(Request) \cup Permutations(Phone)

-----------------------------------------------------------------------------
Redialled(c) == \E d \in Made \ {c} : dialled[d] = dialled[c]

\* The call that was reported last can be hung up while it is up: its number is
\* the one remembered, unless a hang-up that had begun before it was reported
\* has forgotten it since, or there are two calls to the number, of which a
\* hang-up picks either.
NewestIsReachable ==
    newest \in live => \/ pending = dialled[newest]
                       \/ overtaken
                       \/ Redialled(newest)

\* A reported call is answered for by one hang-up only ("so we don't
\* double-hangup"), unless hang-ups overlap or one of them failed.
HungUpOnce == \A g, h \in hung : g[1] = h[1] /\ g[1] \notin doubtful => g = h
=============================================================================
