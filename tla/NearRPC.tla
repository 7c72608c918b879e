------------------------------ MODULE NearRPC ------------------------------
(***************************************************************************)
(* packages/shared/near/src/rpc: one connection manager, whose provider    *)
(* has the URL of one node of a pool, and the methods that the decorator   *)
(* NearRPCRateLimit wraps. Calls share the manager: any first failure of   *)
(* any of them moves all of them to the next node. After an optimistic     *)
(* retry a call that was rate limited waits, at random, and may move the   *)
(* manager once more.                                                      *)
(***************************************************************************)
EXTENDS Integers

CONSTANTS
  Caller,    \* calls of decorated methods
  PoolLength,\* how many nodes; a node is 0 .. PoolLength - 1
  Retries,   \* connectionConfig.retries
  Wait,      \* connectionConfig.wait
  Backoff    \* connectionConfig.backoff

ASSUME NearRPCAssumption ==
  /\ PoolLength \in Nat \ {0} /\ Retries \in Nat
  /\ Wait \in Nat \ {0} /\ Backoff \in Nat \ {0}

VARIABLES
  limited,     \* the nodes that answer with a rate limit, for good
  currentRpc,  \* currentRpcUrl, an index of the pool
  sinceSwitch, \* time since lastSwitchTimestamp, up to Wait
  rpcCall      \* each call: what it waits for and what it has done

rpcVars == <<limited, currentRpc, sinceSwitch, rpcCall>>

Nodes == 0 .. PoolLength - 1

\* Errors: what isRateLimitError recognises, and what it does not.
RateLimitErrors == {"code 429", "text", "Forbidden"}
OtherErrors == {"timeout", "thrown value"}

IsRateLimitError(error) == error \in RateLimitErrors

IdleCall == [stage |-> "idle", node |-> 0, retry |-> 0, timer |-> 0, tried |-> {}]

NearRPCInit ==
  /\ limited \in SUBSET Nodes
  /\ currentRpc = 0 /\ sinceSwitch = Wait
  /\ rpcCall = [c \in Caller |-> IdleCall]

\* Mutant: the manager stays with its node.
SameNode(node) == node

NextNode(node) == (node + 1) % PoolLength

SwitchToNextRPC == currentRpc' = NextNode(currentRpc)

\* The provider sends to the node whose URL it has.
Attempt(c, call, stage, node) ==
  rpcCall' = [rpcCall EXCEPT ![c] = [call EXCEPT !.stage = stage, !.node = node,
                                                 !.tried = @ \cup {node}, !.timer = 0]]

Call(c) ==
  /\ rpcCall[c].stage = "idle"
  /\ Attempt(c, rpcCall[c], "first", currentRpc)
  /\ UNCHANGED <<limited, currentRpc, sinceSwitch>>

\* What the node answers: a limited one an error of the kind, any other one
\* a result or another error.
Answers(node) == IF node \in limited THEN RateLimitErrors ELSE {"ok"} \cup OtherErrors

Settle(c, stage) ==
  /\ rpcCall' = [rpcCall EXCEPT ![c].stage = stage]
  /\ UNCHANGED <<limited, currentRpc, sinceSwitch>>

Succeeds(c) ==
  /\ rpcCall[c].stage \in {"first", "again"} /\ "ok" \in Answers(rpcCall[c].node)
  /\ Settle(c, "done")

\* Whatever the error, the manager moves on; the retry is a macrotask later.
FirstFails(c) ==
  /\ rpcCall[c].stage = "first" /\ Answers(rpcCall[c].node) # {"ok"}
  /\ SwitchToNextRPC
  /\ rpcCall' = [rpcCall EXCEPT ![c].stage = "switched"]
  /\ UNCHANGED <<limited, sinceSwitch>>

\* The optimistic retry, on the node that is current by now.
RetryAtOnce(c) ==
  /\ rpcCall[c].stage = "switched"
  /\ Attempt(c, rpcCall[c], "again", currentRpc)
  /\ UNCHANGED <<limited, currentRpc, sinceSwitch>>

BaseTime(retry) == Wait * (retry + 1) * Backoff

NoMoreRetries(c) == rpcCall[c].retry = Retries

\* The retry failed: another error is thrown, a rate limit waited out, unless
\* there is no retry left.
AgainFails(c, error, extra) ==
  /\ rpcCall[c].stage = "again" /\ error \in Answers(rpcCall[c].node) \ {"ok"}
  /\ extra \in 0 .. Wait
  /\ IF ~IsRateLimitError(error) THEN Settle(c, "failed")
     ELSE IF NoMoreRetries(c) THEN Settle(c, "limited")
     ELSE /\ rpcCall' = [rpcCall EXCEPT ![c].stage = "waiting", ![c].timer = BaseTime(rpcCall[c].retry) + extra]
          /\ UNCHANGED <<limited, currentRpc, sinceSwitch>>

\* Mutant: the loop counts nothing.
SameRetry(retry) == retry

NextRetry(retry) == retry + 1

RememberSwitch == sinceSwitch' = 0

ShouldSwitchRpc == sinceSwitch >= Wait

\* The wait is over: handleRateLimitError switches if nobody did lately, and the
\* loop goes on with the next first attempt.
WaitEnds(c) ==
  /\ rpcCall[c].stage = "waiting" /\ rpcCall[c].timer = 0
  /\ IF ShouldSwitchRpc THEN SwitchToNextRPC /\ RememberSwitch
     ELSE UNCHANGED <<currentRpc, sinceSwitch>>
  /\ Attempt(c, [rpcCall[c] EXCEPT !.retry = NextRetry(@)], "first", currentRpc')
  /\ UNCHANGED limited

RpcTick ==
  /\ \E c \in Caller : rpcCall[c].stage = "waiting" /\ rpcCall[c].timer > 0
  /\ sinceSwitch' = IF sinceSwitch < Wait THEN sinceSwitch + 1 ELSE Wait
  /\ rpcCall' = [c \in Caller |-> [rpcCall[c] EXCEPT !.timer = IF @ > 0 THEN @ - 1 ELSE 0]]
  /\ UNCHANGED <<limited, currentRpc>>

CallStep(c) ==
  \/ Succeeds(c) \/ FirstFails(c) \/ RetryAtOnce(c) \/ WaitEnds(c)
  \/ \E e \in RateLimitErrors \cup OtherErrors, x \in 0 .. Wait : AgainFails(c, e, x)

NearRPCNext == RpcTick \/ \E c \in Caller : Call(c) \/ CallStep(c)

NearRPCSpec == /\ NearRPCInit /\ [][NearRPCNext]_rpcVars
               /\ WF_rpcVars(RpcTick) /\ \A c \in Caller : WF_rpcVars(CallStep(c))

------------------------------------------------------------------------------
Over(c) == rpcCall[c].stage \in {"done", "failed", "limited"}

\* A call that has the manager for itself gives up on a rate limit only when
\* every node of the pool refused it, if its attempts are as many
\* (near-rpc-rate-limit.ts:20-44).
GivesUpAfterAll ==
  \A c \in Caller :
    rpcCall[c].stage = "limited" /\ 2 * (Retries + 1) >= PoolLength
      /\ (\A d \in Caller \ {c} : rpcCall[d].stage = "idle")
    => rpcCall[c].tried = Nodes

\* Every call ends, limited or not (near-rpc-rate-limit.ts:20-48).
EveryRpcCallEnds == \A c \in Caller : rpcCall[c].stage # "idle" ~> Over(c)
=============================================================================
