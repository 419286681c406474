---------------------------- MODULE UserService -----------------------------
(***************************************************************************)
(* Login: the agents of several clients call the user service              *)
(* (userService.lua), which looks the account up in redis, or creates it,  *)
(* through the clients manager (redisClientsMgr.lua) and the redisclient   *)
(* service. Every redis command is a skynet.call: while one login waits    *)
(* for its answer the user service goes on with the others.                *)
(*                                                                         *)
(* Redis runs one command at a time, so an action is the code of a login   *)
(* from one command up to the moment redis runs the next. A nick is named  *)
(* by the login that drew it at random.                                    *)
(***************************************************************************)
EXTENDS Integers, Sequences, FiniteSets

CONSTANTS
  Clients,  \* the clients, one login each
  Smid,     \* Smid[c]: the smid that client c sends
  Nobody,   \* nil
  MaxFail   \* bound on the redis calls that fail

ASSUME UserAssumption ==
  /\ IsFiniteSet(Clients)
  /\ Nobody \notin Clients
  /\ MaxFail \in Nat

VARIABLES
  service,    \* the user service: not launched, named, ready or exited
  uidsMap,    \* redis: the hash "uidsMap", from smid to uid
  info,       \* redis: the hashes "uid_..."; the nick stored for a uid
  counter,    \* redis: "uid_counter"
  generated,  \* the uids drawn with redis at hand, each with its login
  pc,         \* where the login of each client is
  acc,        \* the account (uid, nick) a login is about to return
  failedAt    \* the command at which the redis call of a login failed

redis == <<uidsMap, info, counter>>
vars  == <<service, redis, generated, pc, acc, failedAt>>

redis_name     == "user_redis"
redis_uid_tag  == "uid_counter"
redis_uid_base == 100000

(* m_map of redisClientsMgr: the names with a redisclient. The user        *)
(* service adds its own when redis has answered.                           *)
m_map == IF service = "ready" THEN {redis_name} ELSE {}

(* respone_login puts a fixed smid in place of the one in the request.     *)
login_smid(smid) == 13

Smids == {Smid[c] : c \in Clients} \cup {13}
Uids  == redis_uid_base .. redis_uid_base + Cardinality(Clients)

Account(uid, nick) == [uid |-> uid, nick |-> nick]
NoAccount == Account(0, Nobody)

Init ==
  /\ service = "none"
  /\ uidsMap = [s \in Smids |-> 0]
  /\ info = [u \in Uids |-> Nobody]
  /\ counter = 0
  /\ generated = <<>>
  /\ pc = [c \in Clients |-> "idle"]
  /\ acc = [c \in Clients |-> NoAccount]
  /\ failedAt = [c \in Clients |-> "none"]

-----------------------------------------------------------------------------
(* The start of the service: main.lua launches it after the port is open;  *)
(* it has its name and answers before redis is connected. If redis cannot  *)
(* be reached its init fails and it exits.                                 *)
Register ==
  /\ service = "none"
  /\ service' = "named"
  /\ UNCHANGED <<redis, generated, pc, acc, failedAt>>

AddRedisClient ==
  /\ service = "named"
  /\ service' \in {"ready", "exited"}
  /\ UNCHANGED <<redis, generated, pc, acc, failedAt>>

-----------------------------------------------------------------------------
(* REQUEST.login of the agent: a call to the service, by its local name.   *)
(* Without the name the call raises an error, which the agent logs.        *)
Login(c) ==
  /\ pc[c] = "idle"
  /\ pc' = [pc EXCEPT ![c] = IF service \in {"none", "exited"} THEN "failed"
                             ELSE "login"]
  /\ UNCHANGED <<service, redis, generated, acc, failedAt>>

(* redis_incr: the manager takes the first argument of a command for the   *)
(* name of a redisclient. With a name it does not know it returns false at *)
(* once and no command is sent.                                            *)
incr(name) ==
  IF name \in m_map THEN counter' = counter + 1 ELSE counter' = counter

incremented(name) == IF name \in m_map THEN counter + 1 ELSE 0

(* generate_userid and generate_nick.                                      *)
generate_userid == incremented(redis_uid_tag) + redis_uid_base

create_user(c) ==
  /\ incr(redis_uid_tag)
  /\ acc' = [acc EXCEPT ![c] = Account(generate_userid, c)]

(* respone_login without a redisclient: HGET, HSET and HMSET return false  *)
(* at once, and the new account is returned but not stored.                *)
LoginUnstored(c) ==
  /\ pc[c] = "login" /\ service = "named"
  /\ create_user(c)
  /\ pc' = [pc EXCEPT ![c] = "done"]
  /\ UNCHANGED <<service, uidsMap, info, generated, failedAt>>

(* The service has exited: the kernel drops the call with an error.        *)
LoginDropped(c) ==
  /\ pc[c] = "login" /\ service = "exited"
  /\ pc' = [pc EXCEPT ![c] = "failed"]
  /\ UNCHANGED <<service, redis, generated, acc, failedAt>>

(* HGET uidsMap smid. No uid: the login goes on to create an account.      *)
Hget(c) ==
  /\ pc[c] = "login" /\ redis_name \in m_map
  /\ LET uid == uidsMap[login_smid(Smid[c])]
     IN  IF uid <= 0
         THEN /\ create_user(c)
              /\ generated' =
                   Append(generated, [login |-> c, uid |-> generate_userid])
              /\ pc' = [pc EXCEPT ![c] = "hset"]
         ELSE /\ acc' = [acc EXCEPT ![c] = Account(uid, Nobody)]
              /\ pc' = [pc EXCEPT ![c] = "hmget"]
              /\ UNCHANGED <<generated, counter>>
  /\ UNCHANGED <<service, uidsMap, info, failedAt>>

(* create_user: HSET uidsMap smid uid, then HMSET uid_... nick.            *)
Hset(c) ==
  /\ pc[c] = "hset"
  /\ uidsMap' = [uidsMap EXCEPT ![login_smid(Smid[c])] = acc[c].uid]
  /\ pc' = [pc EXCEPT ![c] = "hmset"]
  /\ UNCHANGED <<service, info, counter, generated, acc, failedAt>>

Mut_Hmset(c) ==
  /\ pc[c] = "hmset"
  /\ pc' = [pc EXCEPT ![c] = "reply"]
  /\ UNCHANGED <<service, redis, generated, acc, failedAt>>
Hmset(c) ==
  /\ pc[c] = "hmset"
  /\ info' = [info EXCEPT ![acc[c].uid] = acc[c].nick]
  /\ pc' = [pc EXCEPT ![c] = "reply"]
  /\ UNCHANGED <<service, uidsMap, counter, generated, acc, failedAt>>

(* HMGET uid_... nick: the account is returned without its uid.            *)
Hmget(c) ==
  /\ pc[c] = "hmget"
  /\ acc' = [acc EXCEPT ![c] = Account(0, info[acc[c].uid])]
  /\ pc' = [pc EXCEPT ![c] = "reply"]
  /\ UNCHANGED <<service, redis, generated, failedAt>>

(* skynet.ret: the agent answers the client.                               *)
Mut_Reply(c) ==
  /\ pc[c] = "reply" /\ acc[c].uid # 0
  /\ pc' = [pc EXCEPT ![c] = "done"]
  /\ UNCHANGED <<service, redis, generated, acc, failedAt>>
Reply(c) ==
  /\ pc[c] = "reply"
  /\ pc' = [pc EXCEPT ![c] = "done"]
  /\ UNCHANGED <<service, redis, generated, acc, failedAt>>

(* A redis call raises an error: the coroutine of the login ends, and so   *)
(* does the call of the agent.                                             *)
RedisFails(c) ==
  /\ service = "ready"
  /\ pc[c] \in {"login", "hset", "hmset", "hmget", "reply"}
  /\ Cardinality({d \in Clients : failedAt[d] # "none"}) < MaxFail
  /\ failedAt' = [failedAt EXCEPT ![c] = pc[c]]
  /\ pc' = [pc EXCEPT ![c] = "failed"]
  /\ UNCHANGED <<service, redis, generated, acc>>

Step(c) == LoginUnstored(c) \/ LoginDropped(c) \/ Hget(c) \/ Hset(c)
             \/ Hmset(c) \/ Hmget(c) \/ Reply(c)

Next == Register \/ AddRedisClient
          \/ \E c \in Clients : Login(c) \/ Step(c) \/ RedisFails(c)

Spec == Init /\ [][Next]_vars

(* The kernel dispatches the answers that arrive, and redis gives one to   *)
(* every command or fails it.                                              *)
FairSpec == Spec /\ \A c \in Clients : WF_vars(Step(c))

-----------------------------------------------------------------------------
(* An account is complete except while it is being created: a smid that    *)
(* has a uid has stored data for it, unless a login of that smid, which    *)
(* made the account, has its HMSET still to do or has failed there, after  *)
(* its HSET. That is the only way to an account without data.              *)
CompleteOrInFlight ==
  \A s \in Smids :
    uidsMap[s] # 0 /\ info[uidsMap[s]] = Nobody =>
      \E c \in Clients :
        /\ login_smid(Smid[c]) = s /\ acc[c].uid = uidsMap[s]
        /\ "hmset" \in {pc[c], failedAt[c]}

(* Every login that reaches the user service ends, with an answer or with  *)
(* an error.                                                               *)
LoginEnds == \A c \in Clients : pc[c] = "login" ~> pc[c] \in {"done", "failed"}

-----------------------------------------------------------------------------
(* What the comments say of the code.                                      *)

(* userService.lua: redis_uid_tag is the uid generator, which increases:   *)
(* of two accounts that were drawn with redis at hand and stored in it,    *)
(* the later one has the greater uid.                                      *)
Stored(g) == pc[g.login] \in {"reply", "done"}
UidsIncrease ==
  \A i, j \in 1 .. Len(generated) :
    i < j /\ Stored(generated[i]) /\ Stored(generated[j]) =>
      generated[i].uid < generated[j].uid
=============================================================================
