---------------------------- MODULE TokenBucket ----------------------------
(***************************************************************************)
(* The traffic shaper of "TOKEN BUCKET/warmup2.c": an arrival thread, a    *)
(* token thread and two servers share Q1, Q2 and the bucket under one      *)
(* mutex m1 and one condition variable cv; the server that finishes packet *)
(* number packet_number cancels the token thread and the other server, and *)
(* main prints the statistics once it has joined all four.                 *)
(*                                                                         *)
(* Every lock..unlock region is one action: nothing shared is touched      *)
(* outside m1.  A usleep is a control state of its own, because it is also *)
(* a cancellation point.  m1 is therefore "free" between actions, unless a *)
(* cancelled thread died owning it.                                        *)
(***************************************************************************)
EXTENDS Integers, Sequences

CONSTANTS PacketNumber,  \* packet_number: how many packets are generated
          BucketSize,    \* bucket_size: the depth of the bucket
          PacketSizes,   \* the sizes a packet may ask for: one on the command
                         \* line (-P), any number of them in a trace file (-t)
          PrintfCancels, \* whether printf is a cancellation point in the C
                         \* library of the build (POSIX leaves it open)
          MallocFails    \* whether malloc may find no memory

ASSUME ParameterAssumption ==
  /\ PacketNumber \in Nat \ {0}
  /\ BucketSize \in Int       \* sscanf takes a negative -B, -P or file entry
  /\ PacketSizes \subseteq Int
  /\ PrintfCancels \in BOOLEAN
  /\ MallocFails \in BOOLEAN

VARIABLES
  m1,                    \* "free", or the dead thread that owns the mutex
  packet_thread,         \* "read": before 148; "arrive": before 155; "done"
  packet_size,           \* the size the next arrival will ask for
  serial_number_packet,
  dropped,               \* the packets drop_packet_count counts
  list_Q1, list_Q2,
  lost,                  \* the packets that an append that failed left nowhere
  token_count,
  token_thread,          \* "sleep": in usleep; "lock": before 203; "dead"
  server,                \* per server: "lock": before 235 or woken; "wait": in
                         \* pthread_cond_wait; "serve": in usleep; "depart":
                         \* before 262; "exit": returned; "dead": cancelled
  cur_val,               \* per server: the serial it has in hand, or 0
  departed,              \* the packets sum_service_time covers
  main                   \* "join", then "stats"; "killed": the process is gone

vars == <<m1, packet_thread, packet_size, serial_number_packet, dropped,
          list_Q1, list_Q2, lost, token_count, token_thread, server, cur_val,
          departed, main>>

Servers == {"s1", "s2"}
Serials(q) == {q[i].serial_number : i \in DOMAIN q}
Packets == [serial_number : 1..PacketNumber,
            tokens_required : {size \in PacketSizes : size <= BucketSize}]

\* The emulation has ended: the last packet departed and its server cancelled
\* the token thread and the other server, in one critical section.
Ended == \E s \in Servers : server[s] = "exit"
CancelsItself(s) == Ended /\ server[s] = "exit"
Cancelled(s) == Ended /\ server[s] # "exit"

Alive == main # "killed"

Init ==
  /\ m1 = "free"
  /\ packet_thread = "read"
  /\ packet_size \in PacketSizes
  /\ serial_number_packet = 0
  /\ dropped = {}
  /\ list_Q1 = <<>>
  /\ list_Q2 = <<>>
  /\ lost = {}
  /\ token_count = 0
  /\ token_thread = "sleep"
  /\ server = [s \in Servers |-> "lock"]
  /\ cur_val = [s \in Servers |-> 0]
  /\ departed = {}
  /\ main = "join"

----------------------------------------------------------------------------
(* The helpers of the critical sections.                                   *)

\* What a call of malloc may find.
Memory == IF MallocFails THEN BOOLEAN ELSE {TRUE}

\* An append needs memory for its element.  Without it the list stays as it is
\* and the call returns 0, which no caller reads: the packet is in no list.
ListPrepend(q, p, memory) == IF memory THEN <<p>> \o q ELSE q
ListAppend(q, p, memory) == IF memory THEN Append(q, p) ELSE q
Unlisted(p, memory) == IF memory THEN {} ELSE {p.serial_number}

KeepFirst(q) == q
UnlinkFirst(q) == Tail(q)

\* A token that finds the bucket full is dropped.
Deposit(tokens) == IF tokens + 1 > BucketSize THEN tokens ELSE tokens + 1

\* The test of the arrival thread reads the packet that arrives ...
NotMoreThanEnough(tokens, p) == tokens >= p.tokens_required - 1
MoreThanEnough(tokens, p) == tokens > p.tokens_required
\* ... and the test of the token thread the packet at the head of Q1.
NearlyEnough(tokens, p) == tokens + 1 = p.tokens_required
ExactlyEnough(tokens, p) == tokens = p.tokens_required

\* The servers after a packet entered Q2, which held q2 before: the broadcast
\* is made only when Q2 was empty.
SignalOne(q2) ==
  IF q2 = <<>> /\ server["s1"] = "wait" THEN [server EXCEPT !["s1"] = "lock"]
  ELSE IF q2 = <<>> /\ server["s2"] = "wait" THEN [server EXCEPT !["s2"] = "lock"]
  ELSE server
TestAfterAppend(q2) == server
Broadcast(q2) ==
  [s \in Servers |->
     IF q2 = <<>> /\ server[s] = "wait" THEN "lock" ELSE server[s]]

\* moving_packet_Q1_to_Q2 with q in Q1, not empty, the given tokens and the
\* packets gone before it: it is always the head of Q1 that moves and is paid
\* for, also when Q2 then has no memory to take it.
MoveHead(q, tokens, gone) ==
  \E memory \in Memory :
    /\ list_Q1' = UnlinkFirst(q)
    /\ token_count' = tokens - Head(q).tokens_required
    /\ list_Q2' = ListAppend(list_Q2, Head(q), memory)
    /\ lost' = lost \cup gone \cup Unlisted(Head(q), memory)
    /\ server' = Broadcast(list_Q2)

MoveNothing(q, tokens, gone) ==
  /\ list_Q1' = q
  /\ token_count' = tokens
  /\ lost' = lost \cup gone
  /\ UNCHANGED <<list_Q2, server>>

----------------------------------------------------------------------------
(* packet_control                                                          *)

\* One line of the trace file; without a file there is one size only.
ReadFile ==
  /\ packet_thread = "read"
  /\ m1 = "free"
  /\ packet_size' \in PacketSizes
  /\ packet_thread' = "arrive"
  /\ UNCHANGED <<m1, serial_number_packet, dropped, list_Q1, list_Q2,
                 lost, token_count, token_thread, server, cur_val, departed,
                 main>>

\* The packet enters Q1 if there is memory; the test of its tokens is made, and
\* the head of Q1 moved, in either case.
Enqueue ==
  \E memory \in Memory :
    LET p == [serial_number |-> serial_number_packet + 1,
              tokens_required |-> packet_size]
        q == ListAppend(list_Q1, p, memory)
        moves == q # <<>> /\ MoreThanEnough(token_count, p)
    IN /\ packet_size <= BucketSize
       /\ dropped' = dropped
       /\ \/ moves /\ MoveHead(q, token_count, Unlisted(p, memory))
          \/ ~moves /\ MoveNothing(q, token_count, Unlisted(p, memory))

Drop ==
  /\ packet_size > BucketSize
  /\ dropped' = dropped \cup {serial_number_packet + 1}
  /\ MoveNothing(list_Q1, token_count, {})

LastArrival(n) == n = PacketNumber

ArriveLocked ==
  /\ packet_thread = "arrive"
  /\ m1 = "free"
  /\ Enqueue \/ Drop
  /\ serial_number_packet' = serial_number_packet + 1
  /\ packet_thread' = IF LastArrival(serial_number_packet + 1)
                      THEN "done" ELSE "read"
  /\ UNCHANGED <<packet_size, token_thread, cur_val, departed, main>>

Arrive == ArriveLocked /\ m1' = m1

\* No memory for the packet itself, which is not to be dropped: the process dies
\* writing to it.
ArriveWithoutMemory ==
  /\ MallocFails
  /\ packet_thread = "arrive"
  /\ m1 = "free"
  /\ packet_size <= BucketSize
  /\ main' = "killed"
  /\ UNCHANGED <<m1, packet_thread, packet_size, serial_number_packet, dropped,
                 list_Q1, list_Q2, lost, token_count, token_thread, server,
                 cur_val, departed>>

----------------------------------------------------------------------------
(* token_control                                                           *)

\* The end of usleep; a sleeper that is cancelled does not return from it.
TokenWake ==
  /\ token_thread = "sleep"
  /\ ~Ended
  /\ token_thread' = "lock"
  /\ UNCHANGED <<m1, packet_thread, packet_size, serial_number_packet, dropped,
                 list_Q1, list_Q2, lost, token_count, server, cur_val,
                 departed, main>>

\* A token arrives and is kept or dropped; the head of Q1 moves if it now has
\* exactly the tokens it needs.
TokenArrive ==
  LET tokens == Deposit(token_count)
      ready == list_Q1 # <<>> /\ ExactlyEnough(tokens, Head(list_Q1))
  IN /\ token_thread = "lock"
     /\ m1 = "free"
     /\ \/ ready /\ MoveHead(list_Q1, tokens, {})
        \/ ~ready /\ MoveNothing(list_Q1, tokens, {})
     /\ token_thread' = "sleep"
     /\ UNCHANGED <<m1, packet_thread, packet_size, serial_number_packet,
                    dropped, cur_val, departed, main>>

TokenDiesAsleep ==
  /\ token_thread = "sleep"
  /\ Ended
  /\ token_thread' = "dead"
  /\ UNCHANGED <<m1, packet_thread, packet_size, serial_number_packet, dropped,
                 list_Q1, list_Q2, lost, token_count, server, cur_val,
                 departed, main>>

\* Cancelled in a printf, the thread dies inside its critical section, after
\* the token was counted.
TokenDiesPrinting ==
  /\ PrintfCancels
  /\ token_thread = "lock"
  /\ Ended
  /\ m1 = "free"
  /\ token_count' = Deposit(token_count)
  /\ m1' = "token"
  /\ token_thread' = "dead"
  /\ UNCHANGED <<packet_thread, packet_size, serial_number_packet, dropped,
                 list_Q1, list_Q2, lost, server, cur_val, departed, main>>

----------------------------------------------------------------------------
(* server_control                                                          *)

OthersUnchanged ==
  UNCHANGED <<packet_thread, packet_size, serial_number_packet, dropped,
              list_Q1, lost, token_count, token_thread, main>>

\* Q2 is empty: the server releases m1 and waits on cv, in one step.
Wait(s) ==
  /\ server[s] = "lock"
  /\ m1 = "free"
  /\ list_Q2 = <<>>
  /\ server' = [server EXCEPT ![s] = "wait"]
  /\ UNCHANGED <<m1, list_Q2, cur_val, departed>>
  /\ OthersUnchanged

\* A return of pthread_cond_wait that no broadcast caused; the loop at 237
\* tests Q2 again.
SpuriousWakeup(s) ==
  /\ server[s] = "wait"
  /\ ~Cancelled(s)
  /\ server' = [server EXCEPT ![s] = "lock"]
  /\ UNCHANGED <<m1, list_Q2, cur_val, departed>>
  /\ OthersUnchanged

BeginService(s) ==
  /\ server[s] = "lock"
  /\ m1 = "free"
  /\ list_Q2 # <<>>
  /\ cur_val' = [cur_val EXCEPT ![s] = Head(list_Q2).serial_number]
  /\ list_Q2' = UnlinkFirst(list_Q2)
  /\ server' = [server EXCEPT ![s] = "serve"]
  /\ UNCHANGED <<m1, departed>>
  /\ OthersUnchanged

EndService(s) ==
  /\ server[s] = "serve"
  /\ ~Cancelled(s)
  /\ server' = [server EXCEPT ![s] = "depart"]
  /\ UNCHANGED <<m1, list_Q2, cur_val, departed>>
  /\ OthersUnchanged

FirstDeparture(n) == n >= 1
LastDeparture(n) == n = PacketNumber

\* The packet departs; the one numbered packet_number ends the emulation.
Depart(s) ==
  /\ server[s] = "depart"
  /\ m1 = "free"
  /\ departed' = departed \cup {cur_val[s]}
  /\ cur_val' = [cur_val EXCEPT ![s] = 0]
  /\ server' = [server EXCEPT ![s] =
                  IF LastDeparture(cur_val[s]) THEN "exit" ELSE "lock"]
  /\ UNCHANGED <<m1, list_Q2>>
  /\ OthersUnchanged

\* Cancelled in usleep: the packet in hand is never accounted for.
ServerDiesServing(s) ==
  /\ server[s] = "serve"
  /\ Cancelled(s)
  /\ server' = [server EXCEPT ![s] = "dead"]
  /\ UNCHANGED <<m1, list_Q2, cur_val, departed>>
  /\ OthersUnchanged

\* Cancelled in pthread_cond_wait: it takes m1 again before it acts on the
\* cancellation, and no cleanup handler unlocks it.
ServerDiesWaiting(s) ==
  /\ server[s] = "wait"
  /\ Cancelled(s)
  /\ m1 = "free"
  /\ m1' = s
  /\ server' = [server EXCEPT ![s] = "dead"]
  /\ UNCHANGED <<list_Q2, cur_val, departed>>
  /\ OthersUnchanged

\* Cancelled in the printf at 267, inside the critical section.
ServerDiesPrinting(s) ==
  /\ PrintfCancels
  /\ server[s] = "depart"
  /\ Cancelled(s)
  /\ m1 = "free"
  /\ m1' = s
  /\ departed' = departed \cup {cur_val[s]}
  /\ cur_val' = [cur_val EXCEPT ![s] = 0]
  /\ server' = [server EXCEPT ![s] = "dead"]
  /\ UNCHANGED list_Q2
  /\ OthersUnchanged

----------------------------------------------------------------------------
(* main: the four joins, then display_statistics.                          *)

DisplayStatistics ==
  /\ main = "join"
  /\ packet_thread = "done"
  /\ token_thread = "dead"
  /\ \A s \in Servers : server[s] \in {"exit", "dead"}
  /\ main' = "stats"
  /\ UNCHANGED <<m1, packet_thread, packet_size, serial_number_packet, dropped,
                 list_Q1, list_Q2, lost, token_count, token_thread, server,
                 cur_val, departed>>

PacketThread == Alive /\ (ReadFile \/ Arrive \/ ArriveWithoutMemory)
TokenThread ==
  Alive /\ (TokenWake \/ TokenArrive \/ TokenDiesAsleep \/ TokenDiesPrinting)
ServerThread(s) ==
  /\ Alive
  /\ \/ Wait(s) \/ BeginService(s) \/ EndService(s) \/ Depart(s)
     \/ ServerDiesServing(s) \/ ServerDiesWaiting(s) \/ ServerDiesPrinting(s)

Next ==
  \/ PacketThread
  \/ TokenThread
  \/ \E s \in Servers : ServerThread(s) \/ (Alive /\ SpuriousWakeup(s))
  \/ DisplayStatistics

Spec == Init /\ [][Next]_vars

\* Every thread that can go on eventually does: usleep returns, and a thread
\* that finds m1 free again and again gets it, since every other thread sleeps
\* or waits between two of its critical sections.
Fairness ==
  /\ WF_vars(PacketThread)
  /\ WF_vars(TokenThread)
  /\ \A s \in Servers : WF_vars(ServerThread(s))
  /\ WF_vars(DisplayStatistics)

FairSpec == Spec /\ Fairness
=============================================================================
