-------------------------- MODULE UserServiceProofs --------------------------
(***************************************************************************)
(* Proofs of the safety of UserService, for any finite set of clients,     *)
(* any smids and any number of redis calls that fail.                      *)
(*                                                                         *)
(* CompleteOrInFlight speaks of the logins that have their HMSET to do or  *)
(* have failed there. It is inductive together with what such a login has  *)
(* at hand: a uid, and the nick that it drew (AtWork).                     *)
(***************************************************************************)
EXTENDS UserService, FiniteSetTheorems, TLAPS

Stages == {"idle", "login", "hset", "hmset", "hmget", "reply", "done", "failed"}

(* The types that the argument needs; of counter and of what is generated  *)
(* only that the generator never gets an answer from redis.                *)
RedisType ==
  /\ uidsMap \in [Smids -> {0} \cup Uids]
  /\ info \in [Uids -> Clients \cup {Nobody}]
  /\ pc \in [Clients -> Stages]
  /\ acc \in [Clients -> [uid : {0} \cup Uids, nick : Clients \cup {Nobody}]]
  /\ failedAt \in [Clients -> Stages \cup {"none"}]

(* A login that is not done with redis holds a uid, and while it makes an  *)
(* account the nick it drew; no call of it has failed before it ends.      *)
AtWork ==
  \A c \in Clients :
    /\ pc[c] \in {"hset", "hmset", "hmget"} => acc[c].uid \in Uids
    /\ pc[c] \in {"hset", "hmset"} => acc[c].nick = c
    /\ pc[c] # "failed" => failedAt[c] = "none"

IInv == RedisType /\ AtWork /\ CompleteOrInFlight

(* Every login has the one smid.                                           *)
LEMMA TheSmid == 13 \in Smids /\ \A c \in Clients : login_smid(Smid[c]) = 13
BY DEF Smids, login_smid

(* The names are different, so that the manager knows no redisclient for   *)
(* the uid generator: create_user makes every account with the base uid.   *)
LEMMA CreatedUid ==
  ASSUME NEW c, create_user(c)
  PROVE  /\ generate_userid = redis_uid_base
         /\ acc' = [acc EXCEPT ![c] = Account(redis_uid_base, c)]
BY DEF create_user, generate_userid, incremented, m_map, redis_uid_tag,
   redis_name, redis_uid_base

(* The base uid is one, and 0 is none.                                     *)
LEMMA UidType == redis_uid_base \in Uids /\ 0 \notin Uids
<1>1. Cardinality(Clients) \in Nat
  BY UserAssumption, FS_CardinalityType
<1> QED BY <1>1 DEF Uids, redis_uid_base

(* Nothing is stored at first.                                             *)
LEMMA InitIInv == Init => IInv
<1> SUFFICES ASSUME Init PROVE IInv
  OBVIOUS
<1>1. RedisType
  BY DEF Init, RedisType, Stages, NoAccount, Account
<1>2. AtWork /\ CompleteOrInFlight
  BY UserAssumption DEF Init, AtWork, CompleteOrInFlight
<1> QED BY <1>1, <1>2 DEF IInv

(* Every command of redis and every failure keeps the invariant.           *)
LEMMA NextIInv ==
  ASSUME IInv, [Next]_vars
  PROVE  IInv'
<1> USE UserAssumption, UidType, TheSmid DEF IInv, redis, Stages
<1>1. 13 \in Smids
  OBVIOUS
<1>2. CASE Register \/ AddRedisClient \/ UNCHANGED vars
  BY <1>2 DEF Register, AddRedisClient, vars, RedisType, AtWork, CompleteOrInFlight
<1>3. ASSUME NEW c \in Clients, NEW p \in {"login", "failed", "done"},
             pc[c] \notin {"hset", "hmset", "failed"},
             pc' = [pc EXCEPT ![c] = p],
             UNCHANGED <<uidsMap, info, acc, failedAt>>
      PROVE  IInv'
  <2>1. RedisType' /\ AtWork'
    BY <1>3 DEF RedisType, AtWork
  <2>2. failedAt[c] = "none"
    BY <1>3 DEF AtWork
  <2>3. CompleteOrInFlight'
    BY <1>3, <2>2 DEF RedisType, CompleteOrInFlight
  <2> QED BY <2>1, <2>3
<1>4. ASSUME NEW c \in Clients, Login(c) \/ LoginDropped(c) \/ Reply(c)
      PROVE  IInv'
  BY <1>3, <1>4 DEF Login, LoginDropped, Reply
<1>5. ASSUME NEW c \in Clients, NEW p \in Stages \ {"hmset"}, NEW u \in Uids,
             pc[c] = "login", pc' = [pc EXCEPT ![c] = p],
             \/ acc' = [acc EXCEPT ![c] = Account(u, c)]
             \/ acc' = [acc EXCEPT ![c] = Account(u, Nobody)] /\ p = "hmget",
             UNCHANGED <<uidsMap, info, failedAt>>
      PROVE  IInv'
  <2>1. RedisType'
    BY <1>5 DEF RedisType, Account
  <2>2. AtWork'
    BY <1>5 DEF RedisType, AtWork, Account
  <2>3. failedAt[c] = "none"
    BY <1>5 DEF AtWork
  <2>4. ASSUME NEW d \in Clients, "hmset" \in {pc[d], failedAt[d]}
        PROVE  /\ acc'[d] = acc[d] /\ "hmset" \in {pc'[d], failedAt'[d]}
    BY <1>5, <2>3, <2>4 DEF RedisType
  <2>5. CompleteOrInFlight'
    BY <1>5, <2>4 DEF RedisType, CompleteOrInFlight
  <2> QED BY <2>1, <2>2, <2>5
<1>6. ASSUME NEW c \in Clients, LoginUnstored(c) PROVE IInv'
  BY <1>5, <1>6, CreatedUid DEF LoginUnstored
<1>7. ASSUME NEW c \in Clients, Hget(c) PROVE IInv'
  <2>1. CASE uidsMap[13] <= 0
    BY <1>5, <1>7, <2>1, CreatedUid DEF Hget
  <2>2. CASE ~ (uidsMap[13] <= 0)
    <3>1. uidsMap[13] \in Uids
      BY <1>1, <2>2 DEF RedisType
    <3> QED BY <1>5, <1>7, <2>2, <3>1 DEF Hget
  <2> QED BY <2>1, <2>2
<1>8. ASSUME NEW c \in Clients, Hset(c) PROVE IInv'
  <2>1. acc[c].uid \in Uids
    BY <1>8 DEF Hset, AtWork
  <2>2. /\ uidsMap' = [uidsMap EXCEPT ![13] = acc[c].uid]
        /\ pc[c] = "hset" /\ pc' = [pc EXCEPT ![c] = "hmset"]
        /\ UNCHANGED <<info, acc, failedAt>>
    BY <1>8 DEF Hset
  <2>3. RedisType' /\ AtWork'
    BY <1>1, <2>1, <2>2 DEF RedisType, AtWork
  <2>4. CompleteOrInFlight'
    BY <1>1, <2>1, <2>2 DEF RedisType, CompleteOrInFlight
  <2> QED BY <2>3, <2>4
<1>9. ASSUME NEW c \in Clients, Hmset(c) PROVE IInv'
  <2>1. acc[c].uid \in Uids /\ acc[c].nick = c
    BY <1>9 DEF Hmset, AtWork
  <2>2. /\ info' = [info EXCEPT ![acc[c].uid] = c]
        /\ pc[c] = "hmset" /\ pc' = [pc EXCEPT ![c] = "reply"]
        /\ UNCHANGED <<uidsMap, acc, failedAt>>
    BY <1>9, <2>1 DEF Hmset
  <2>3. RedisType' /\ AtWork'
    BY <2>1, <2>2 DEF RedisType, AtWork
  <2>4. CompleteOrInFlight'
    BY <2>1, <2>2 DEF RedisType, CompleteOrInFlight
  <2> QED BY <2>3, <2>4
<1>10. ASSUME NEW c \in Clients, Hmget(c) PROVE IInv'
  <2>1. info[acc[c].uid] \in Clients \cup {Nobody}
    BY <1>10 DEF Hmget, RedisType, AtWork
  <2> QED BY <1>10, <2>1 DEF Hmget, RedisType, AtWork, CompleteOrInFlight, Account
<1>11. ASSUME NEW c \in Clients, RedisFails(c) PROVE IInv'
  BY <1>11 DEF RedisFails, RedisType, AtWork, CompleteOrInFlight
<1> QED
  BY <1>2, <1>4, <1>6, <1>7, <1>8, <1>9, <1>10, <1>11 DEF Next, Step

(* The inductive invariant of the module.                                  *)
THEOREM Invariance == Spec => []IInv
BY InitIInv, NextIInv, PTL DEF Spec

(* A smid that has a uid has stored data for it, unless a login of that    *)
(* smid that made the account has its HMSET still to do or has failed      *)
(* there (create_user of userService.lua). No other failure, of this or of *)
(* another login, leaves an account without data.                          *)
THEOREM AccountsComplete == Spec => []CompleteOrInFlight
<1>1. IInv => CompleteOrInFlight
  BY DEF IInv
<1> QED BY <1>1, Invariance, PTL

-----------------------------------------------------------------------------
(* Every uid drawn is the base, and so is every uid that redis has for a   *)
(* smid and every uid that a login has at hand.                            *)
Draws == [login : Clients, uid : {redis_uid_base}]
AllBase ==
  /\ generated \in Seq(Draws)
  /\ uidsMap \in [Smids -> {0, redis_uid_base}]
  /\ acc \in [Clients -> [uid : {0, redis_uid_base},
                          nick : Clients \cup {Nobody}]]

(* A login that has read the hash, or made an account, has the base uid.   *)
Drawn == \A c \in Clients : pc[c] = "hset" => acc[c].uid = redis_uid_base

(* What the comment in userService.lua says of redis_uid_tag, that it      *)
(* generates increasing uids, is true of no two accounts of any run: redis *)
(* is never asked, because redis_incr is called without the name of a      *)
(* redisclient.                                                            *)
THEOREM UidsNeverIncrease == Spec => []AllBase
<1>1. Init => AllBase /\ Drawn
  BY UserAssumption DEF Init, AllBase, Drawn, NoAccount, Account
<1>2. ASSUME IInv, AllBase, Drawn, [Next]_vars PROVE AllBase' /\ Drawn'
  <2> USE UidType, TheSmid DEF redis
  <2>1. /\ RedisType /\ AtWork /\ generated \in Seq(Draws)
        /\ uidsMap \in [Smids -> {0, redis_uid_base}]
        /\ acc \in [Clients -> [uid : {0, redis_uid_base},
                                nick : Clients \cup {Nobody}]]
    BY <1>2 DEF IInv, AllBase
  <2>2. CASE Register \/ AddRedisClient \/ UNCHANGED vars
    BY <1>2, <2>2 DEF Register, AddRedisClient, vars, AllBase, Drawn
  <2>3. ASSUME NEW c \in Clients,
               Login(c) \/ LoginDropped(c) \/ Reply(c) \/ RedisFails(c)
        PROVE  AllBase' /\ Drawn'
    BY <1>2, <2>1, <2>3 DEF Login, LoginDropped, Reply, RedisFails, AllBase,
       Drawn, RedisType
  <2>4. ASSUME NEW c \in Clients, Hset(c) \/ Hmset(c)
        PROVE  AllBase' /\ Drawn'
    BY <1>2, <2>1, <2>4 DEF Hset, Hmset, AllBase, Drawn, RedisType
  <2>5. ASSUME NEW c \in Clients, Hmget(c)
        PROVE  AllBase' /\ Drawn'
    <3>1. info[acc[c].uid] \in Clients \cup {Nobody}
      BY <2>1, <2>5 DEF Hmget, RedisType, AtWork
    <3> QED BY <1>2, <2>1, <2>5, <3>1 DEF Hmget, AllBase, Drawn, RedisType,
               Account
  <2>6. ASSUME NEW c \in Clients, create_user(c)
        PROVE  /\ generate_userid = redis_uid_base
               /\ acc' = [acc EXCEPT ![c] = Account(redis_uid_base, c)]
    BY <2>6, CreatedUid
  <2>7. ASSUME NEW c \in Clients, LoginUnstored(c)
        PROVE  AllBase' /\ Drawn'
    BY <1>2, <2>1, <2>6, <2>7 DEF LoginUnstored, AllBase, Drawn, RedisType,
       Account
  <2>8. ASSUME NEW c \in Clients, Hget(c)
        PROVE  AllBase' /\ Drawn'
    <3>1. CASE uidsMap[13] <= 0
      <4>1. create_user(c) /\ uidsMap' = uidsMap
        BY <2>8, <3>1 DEF Hget
      <4>2. pc' = [pc EXCEPT ![c] = "hset"]
        BY <2>8, <3>1 DEF Hget
      <4> DEFINE draw == [login |-> c, uid |-> generate_userid]
      <4>3. generated' = Append(generated, draw)
        BY <2>8, <3>1 DEF Hget
      <4>4. draw \in Draws
        BY <2>6, <4>1 DEF Draws
      <4> HIDE DEF draw
      <4>5. generated' \in Seq(Draws)
        BY <2>1, <4>3, <4>4
      <4>6. acc' = [acc EXCEPT ![c] = Account(redis_uid_base, c)]
        BY <2>6, <4>1
      <4>7. acc' \in [Clients -> [uid : {0, redis_uid_base},
                                 nick : Clients \cup {Nobody}]]
        BY <2>1, <4>6 DEF Account
      <4>8. Drawn'
        BY <1>2, <2>1, <4>2, <4>6 DEF Drawn, Account, RedisType
      <4> QED BY <2>1, <4>1, <4>5, <4>7, <4>8 DEF AllBase
    <3>2. CASE ~ (uidsMap[13] <= 0)
      <4>1. /\ uidsMap' = uidsMap /\ generated' = generated
            /\ pc' = [pc EXCEPT ![c] = "hmget"]
            /\ acc' = [acc EXCEPT ![c] = Account(uidsMap[13], Nobody)]
        BY <2>8, <3>2 DEF Hget
      <4>2. uidsMap[13] \in {0, redis_uid_base}
        BY <2>1
      <4>3. acc' \in [Clients -> [uid : {0, redis_uid_base},
                                 nick : Clients \cup {Nobody}]]
        BY <2>1, <4>1, <4>2 DEF Account
      <4>4. Drawn'
        BY <1>2, <2>1, <4>1 DEF Drawn, RedisType
      <4> QED BY <2>1, <4>1, <4>3, <4>4 DEF AllBase
    <3> QED BY <3>1, <3>2
  <2> QED BY <1>2, <2>2, <2>3, <2>4, <2>5, <2>7, <2>8 DEF Next, Step
<1> QED BY <1>1, <1>2, Invariance, PTL DEF Spec
=============================================================================
