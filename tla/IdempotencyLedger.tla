------------------------- MODULE IdempotencyLedger -------------------------
(***************************************************************************)
(* idempotencyLedger (internal/productiontools/production_tools.go): calls *)
(* with one key and the same arguments share one execution and its result. *)
(***************************************************************************)
CONSTANTS
    Client,     \* calls of execute
    Key,
    KeyOf,      \* the key each call comes with,
    ArgsOf,     \* and its arguments (their digest, fp)
    NoArgs      \* of an entry that is not there

ASSUME LedgerAssumption ==
    /\ KeyOf \in [Client -> Key]
    /\ DOMAIN ArgsOf = Client
    /\ \A c \in Client : ArgsOf[c] # NoArgs

VARIABLES
    client,      \* where each call is, or what it has returned
    abandoned,   \* the calls whose context has ended
    fp,          \* fp[k]: the arguments of the entry under k
    done,        \* done[k]: closed, with the result; "open" before
    effects      \* the calls that have run the tool

ledgerVars == <<client, abandoned, fp, done, effects>>

Result == {"ok", "failure"}

LedgerTypeOK ==
    /\ client \in [Client -> {"call", "wait", "run", "conflict", "cancelled"} \cup Result]
    /\ abandoned \subseteq Client
    /\ fp \in [Key -> {ArgsOf[c] : c \in Client} \cup {NoArgs}]
    /\ done \in [Key -> {"open"} \cup Result]
    /\ effects \subseteq Client

LedgerInit ==
    /\ client = [c \in Client |-> "call"]
    /\ abandoned = {}
    /\ fp = [k \in Key |-> NoArgs]
    /\ done = [k \in Key |-> "open"]
    /\ effects = {}

-----------------------------------------------------------------------------
\* Mutant of Claim: the entry is made when the result is there.
RunUnclaimed(c) ==
    /\ client[c] = "call"
    /\ fp[KeyOf[c]] = NoArgs
    /\ client' = [client EXCEPT ![c] = "run"]
    /\ UNCHANGED <<abandoned, fp, done, effects>>

\* The key is new: its entry is made under the mutex, and the tool runs.
Claim(c) ==
    /\ client[c] = "call"
    /\ fp[KeyOf[c]] = NoArgs
    /\ fp' = [fp EXCEPT ![KeyOf[c]] = ArgsOf[c]]
    /\ client' = [client EXCEPT ![c] = "run"]
    /\ UNCHANGED <<abandoned, done, effects>>

\* The key is known, with these arguments or with others.
Meet(c) ==
    /\ client[c] = "call"
    /\ fp[KeyOf[c]] # NoArgs
    /\ client' = [client EXCEPT ![c] = IF fp[KeyOf[c]] = ArgsOf[c] THEN "wait"
                                       ELSE "conflict"]
    /\ UNCHANGED <<abandoned, fp, done, effects>>

\* Mutant of RunEnds: the channel is closed only when the tool succeeds.
RunEndsOpen(c) ==
    /\ client[c] = "run"
    /\ effects' = effects \cup {c}
    /\ \E r \in Result : /\ done' = IF r = "ok" THEN [done EXCEPT ![KeyOf[c]] = r]
                                   ELSE done
                         /\ client' = [client EXCEPT ![c] = r]
    /\ UNCHANGED <<abandoned, fp>>

\* The tool has run, for better or worse, also when its context has ended.
RunEnds(c) ==
    /\ client[c] = "run"
    /\ effects' = effects \cup {c}
    /\ \E r \in Result : /\ done' = [done EXCEPT ![KeyOf[c]] = r]
                         /\ client' = [client EXCEPT ![c] = r]
    /\ UNCHANGED <<abandoned, fp>>

\* <-e.done
ShareResult(c) ==
    /\ client[c] = "wait"
    /\ done[KeyOf[c]] # "open"
    /\ client' = [client EXCEPT ![c] = done[KeyOf[c]]]
    /\ UNCHANGED <<abandoned, fp, done, effects>>

\* <-c.Done(); with both ready, either is taken.
GiveUp(c) ==
    /\ client[c] = "wait"
    /\ c \in abandoned
    /\ client' = [client EXCEPT ![c] = "cancelled"]
    /\ UNCHANGED <<abandoned, fp, done, effects>>

Abandon(c) ==
    /\ abandoned' = abandoned \cup {c}
    /\ UNCHANGED <<client, fp, done, effects>>

LedgerNext ==
    \E c \in Client : \/ Claim(c) \/ Meet(c) \/ RunEnds(c)
                      \/ ShareResult(c) \/ GiveUp(c) \/ Abandon(c)

LedgerSpec == LedgerInit /\ [][LedgerNext]_ledgerVars

-----------------------------------------------------------------------------
\* docs/agent/tool-execution-checklist.md, 6: of concurrent calls with one key
\* one runs the tool, and those with other arguments run nothing and share
\* nothing; whoever has a result has the one of the arguments it came with, and
\* the call that ran the tool is not told otherwise by its ended context.
OneEffectPerKey ==
    \A b, c \in Client : KeyOf[b] = KeyOf[c] =>
        /\ b \in effects /\ c \in effects => b = c
        /\ client[b] \in Result =>
              /\ client[b] = done[KeyOf[b]]
              /\ \E r \in effects : KeyOf[r] = KeyOf[b] /\ ArgsOf[r] = ArgsOf[b]

\* A call that waits has somebody to wait for: a call with its key and its
\* arguments that runs the tool now, or the result that one has left.  Whether
\* the first call fails, or its context or that of another ends, strands nobody.
NoWaiterStranded ==
    \A c \in Client : client[c] = "wait" =>
        \/ done[KeyOf[c]] # "open"
        \/ \E r \in Client : /\ client[r] = "run"
                             /\ KeyOf[r] = KeyOf[c]
                             /\ ArgsOf[r] = ArgsOf[c]

\* The calls of a key that run the tool or have run it, and what a caller has seen.
RunnersOf(k) == {c \in Client : KeyOf[c] = k /\ (client[c] = "run" \/ c \in effects)}
Answer(c) == IF client[c] \in {"call", "wait", "run"} THEN "none" ELSE client[c]

Flight == INSTANCE SingleFlight WITH
              runner <- [k \in Key |-> RunnersOf(k)],
              outcome <- done,
              answer <- [c \in Client |-> Answer(c)]

\* The ledger implements SingleFlight: seen from its callers, each step of execute
\* is the one run of a key, its end, or the answer of one call, and nothing else.
\* Neither the entry, the mutex and the waiting nor a context that ends can be
\* told from outside.
RefinesSingleFlight == Flight!FlightSpec

\* A call that has not been turned away has met or made an entry of its own
\* arguments.
EntriesClaimed ==
    \A c \in Client : client[c] \notin {"call", "conflict"} => fp[KeyOf[c]] = ArgsOf[c]

\* One call of a key runs the tool, or has run it.
OneRunner ==
    /\ \A b, c \in Client :
          /\ KeyOf[b] = KeyOf[c]
          /\ client[b] = "run" \/ b \in effects
          /\ client[c] = "run" \/ c \in effects
          => b = c
    /\ \A c \in Client : client[c] = "run" => done[KeyOf[c]] = "open"

\* A result is that of a call that has run the tool.
ResultsStored ==
    /\ \A c \in effects : client[c] \in Result
    /\ \A c \in Client : client[c] \in Result => client[c] = done[KeyOf[c]]
    /\ \A k \in Key : done[k] # "open" => \E r \in effects : KeyOf[r] = k

\* An entry has its result, or a call that is about to bring it.
EntriesServed ==
    \A k \in Key : fp[k] # NoArgs =>
        done[k] # "open" \/ \E r \in Client : client[r] = "run" /\ KeyOf[r] = k

\* The inductive invariant behind OneEffectPerKey.
LedgerInv == EntriesClaimed /\ OneRunner /\ ResultsStored
=============================================================================
