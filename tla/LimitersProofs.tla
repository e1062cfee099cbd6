--------------------------- MODULE LimitersProofs ---------------------------
(***************************************************************************)
(* The limiter of failed logins implements AuthBan, and its bans outlast   *)
(* every call and grow; the limiter of RPCs keeps its limit: for every set *)
(* of addresses and every setting that validation accepts.                 *)
(*                                                                         *)
(* What the calls promise depends on what the sweep has left.  LimiterInv  *)
(* says what it must have left: as long as the window of the last ban or   *)
(* the ban itself lasts, the entry is there, with this ban and with the    *)
(* level it was given for.  The RPCs are at the end of the module.         *)
(***************************************************************************)
EXTENDS Limiters, TLAPS

Typed ==
  /\ now \in Nat \ {0}
  /\ DOMAIN states \subseteq IPs
  /\ states \in [DOMAIN states -> IpState]
  /\ lastBan \in [IPs -> [at : Nat, long : Nat]]

Recent(ip) ==
  /\ lastBan[ip] # Never
  /\ \/ now - lastBan[ip].at < Window
     \/ now < lastBan[ip].at + lastBan[ip].long

Remembered(ip) ==
  /\ ip \in DOMAIN states
  /\ states[ip].window_start >= lastBan[ip].at
  /\ BanLength(states[ip].ban_level) >= lastBan[ip].long
  /\ now < lastBan[ip].at + lastBan[ip].long =>
       states[ip].blocked_until >= lastBan[ip].at + lastBan[ip].long

LimiterInv ==
  /\ Typed
  /\ \A ip \in DOMAIN states :
       /\ states[ip].window_start <= now
       /\ states[ip].blocked_until <= now + BanLength(states[ip].ban_level)
  /\ \A ip \in IPs : lastBan[ip].at <= now
  /\ \A ip \in IPs : Recent(ip) => Remembered(ip)

-----------------------------------------------------------------------------
USE LimiterAssumption

(* The smaller one of two numbers, as record_failure takes it.              *)
LEMMA MinOfTwo ==
  ASSUME NEW a \in Nat, NEW b \in Nat
  PROVE  Min({a, b}) = IF a <= b THEN a ELSE b
<1>1. \E x \in {a, b} : \A y \in {a, b} : x <= y
  OBVIOUS
<1>2. /\ Min({a, b}) \in {a, b}
      /\ \A y \in {a, b} : Min({a, b}) <= y
  BY <1>1, Zenon DEF Min
<1>. QED BY <1>2

(* The length of a ban is a number up to ban_max_secs.                      *)
LEMMA BanIsBounded ==
  ASSUME NEW level \in Nat
  PROVE  BanLength(level) \in Nat \ {0} /\ BanLength(level) <= BanMax
<1>. DEFINE n == Min({level, 10})
<1>1. n \in 0 .. 10
  BY MinOfTwo
<1>2. 2 ^ n \in Nat \ {0}
  BY <1>1, PowersOfTwo, Zenon
<1>. HIDE DEF n
<1>3. \A p \in Nat \ {0} : BanBase * p \in Nat \ {0}
  OBVIOUS
<1>4. BanBase * (2 ^ n) \in Nat \ {0}
  BY <1>2, <1>3, Zenon
<1>. QED BY <1>4, MinOfTwo DEF BanLength, n

(* A higher level never gives a shorter ban.                                *)
LEMMA BansGrow ==
  ASSUME NEW level \in Nat
  PROVE  BanLength(level) <= BanLength(level + 1)
<1>. DEFINE n == Min({level, 10})
            m == Min({level + 1, 10})
<1>1. m \in 0 .. 10 /\ n \in 0 .. 10 /\ n \in 0 .. m
  BY MinOfTwo
<1>. HIDE DEF n, m
<1>2. 2 ^ n \in Nat /\ 2 ^ m \in Nat /\ 2 ^ n <= 2 ^ m
  BY <1>1, PowersOfTwo, Zenon
<1>3. \A p, q \in Nat : p <= q =>
        BanBase * p \in Nat /\ BanBase * q \in Nat /\ BanBase * p <= BanBase * q
  OBVIOUS
<1>4. /\ BanBase * (2 ^ n) \in Nat /\ BanBase * (2 ^ m) \in Nat
      /\ BanBase * (2 ^ n) <= BanBase * (2 ^ m)
  BY <1>2, <1>3, Zenon
<1>. QED BY <1>4, MinOfTwo DEF BanLength, n, m

(* cleanup_expired keeps entries as they are and drops only expired ones.   *)
LEMMA SweepLeaves ==
  ASSUME Typed
  PROVE  /\ DOMAIN Swept = {i \in DOMAIN states : Kept(states[i])}
         /\ \A i \in DOMAIN Swept : Swept[i] = states[i] /\ Swept[i] \in IpState
BY Zenon DEF Typed, Swept

(* What a call of is_blocked leaves of each entry.                          *)
LEMMA IsBlockedLeaves ==
  ASSUME Typed, NEW ip \in IPs, is_blocked(ip)
  PROVE  /\ Typed'
         /\ DOMAIN states' = {i \in DOMAIN states : Kept(states[i])}
         /\ \A i \in DOMAIN states' :
              /\ states'[i].failures = states[i].failures
              /\ states'[i].window_start = states[i].window_start
              /\ states'[i].ban_level = states[i].ban_level
              /\ \/ states'[i].blocked_until = states[i].blocked_until
                 \/ states[i].blocked_until <= now /\ states'[i].blocked_until = 0
<1>1. DOMAIN states' = DOMAIN Swept
  BY Zenon DEF is_blocked
<1>2. \A i \in DOMAIN Swept :
        \/ states'[i] = Swept[i]
        \/ Swept[i].blocked_until <= now
             /\ states'[i] = [Swept[i] EXCEPT !.blocked_until = NoBan]
  BY Zenon DEF is_blocked
<1>3. \A i \in DOMAIN states' :
        /\ states'[i] \in IpState
        /\ states'[i].failures = states[i].failures
        /\ states'[i].window_start = states[i].window_start
        /\ states'[i].ban_level = states[i].ban_level
        /\ \/ states'[i].blocked_until = states[i].blocked_until
           \/ states[i].blocked_until <= now /\ states'[i].blocked_until = 0
  BY <1>1, <1>2, SweepLeaves DEF IpState, NoBan
<1>4. states' = [i \in DOMAIN states' |-> states'[i]]
  BY Zenon DEF is_blocked
<1>5. Typed'
  BY <1>1, <1>3, <1>4, SweepLeaves, Zenon DEF Typed, is_blocked
<1>. QED BY <1>1, <1>3, <1>5, SweepLeaves, Zenon

(* The entry that record_failure works on.                                  *)
LEMMA CountingFrom ==
  ASSUME Typed, NEW ip \in IPs
  PROVE  /\ Counting(ip) \in IpState
         /\ \/ /\ ip \in DOMAIN states /\ Kept(states[ip])
               /\ Counting(ip).ban_level = states[ip].ban_level
               /\ Counting(ip).blocked_until = states[ip].blocked_until
               /\ \/ /\ Counting(ip).failures = states[ip].failures
                     /\ Counting(ip).window_start = states[ip].window_start
                  \/ Counting(ip).failures = 0 /\ Counting(ip).window_start = now
            \/ /\ ~(ip \in DOMAIN states /\ Kept(states[ip]))
               /\ Counting(ip).ban_level = 0 /\ Counting(ip).blocked_until = 0
               /\ Counting(ip).failures = 0 /\ Counting(ip).window_start = now
<1>. DEFINE st == IF ip \in DOMAIN Swept THEN Swept[ip] ELSE Fresh
<1>1. Counting(ip) = IF now - st.window_start >= Window
                     THEN [st EXCEPT !.window_start = now, !.failures = 0]
                     ELSE st
  BY Zenon DEF Counting
<1>2. CASE ip \in DOMAIN Swept
  <2>1. st = states[ip] /\ st \in IpState /\ ip \in DOMAIN states /\ Kept(states[ip])
    BY <1>2, SweepLeaves, Zenon
  <2>. HIDE DEF st
  <2>2. CASE now - st.window_start >= Window
    <3>. DEFINE mid == [st EXCEPT !.window_start = now]
                new == [mid EXCEPT !.failures = 0]
    <3>1. /\ mid \in IpState /\ mid.window_start = now
          /\ mid.blocked_until = st.blocked_until /\ mid.ban_level = st.ban_level
      BY <2>1, Zenon DEF IpState, Typed
    <3>2. Counting(ip) = new
      BY <1>1, <2>1, <2>2, Zenon DEF IpState
    <3>. HIDE DEF mid
    <3>3. /\ new \in IpState /\ new.failures = 0 /\ new.window_start = mid.window_start
          /\ new.blocked_until = mid.blocked_until /\ new.ban_level = mid.ban_level
      BY <3>1 DEF IpState
    <3>. HIDE DEF new
    <3>. QED BY <2>1, <3>1, <3>2, <3>3, Zenon
  <2>3. CASE ~(now - st.window_start >= Window)
    BY <1>1, <2>1, <2>3, Zenon
  <2>. QED BY <2>2, <2>3, Zenon
<1>3. CASE ip \notin DOMAIN Swept
  <2>1. st = Fresh /\ ~(ip \in DOMAIN states /\ Kept(states[ip]))
    BY <1>3, SweepLeaves, Zenon
  <2>2. Fresh \in IpState
    BY DEF Fresh, IpState, NoBan, Typed
  <2>. HIDE DEF st
  <2>3. /\ Fresh.failures = 0 /\ Fresh.window_start = now
        /\ Fresh.blocked_until = 0 /\ Fresh.ban_level = 0
    BY Zenon DEF Fresh, NoBan
  <2>4. Counting(ip) = Fresh
    BY <1>1, <2>1, <2>3 DEF Typed
  <2>. QED BY <2>1, <2>2, <2>3, <2>4, Zenon
<1>. QED BY <1>2, <1>3, Zenon

(* What a call of record_failure leaves: either one failure more, or a ban. *)
LEMMA RecordFailureLeaves ==
  ASSUME Typed, NEW ip \in IPs, record_failure(ip)
  PROVE  /\ Typed'
         /\ DOMAIN states' = {i \in DOMAIN states : Kept(states[i])} \cup {ip}
         /\ \A i \in DOMAIN states' \ {ip} : states'[i] = states[i]
         /\ \/ /\ Counting(ip).failures + 1 < MaxFailures
               /\ lastBan' = lastBan
               /\ states'[ip].failures = Counting(ip).failures + 1
               /\ states'[ip].window_start = Counting(ip).window_start
               /\ states'[ip].blocked_until = Counting(ip).blocked_until
               /\ states'[ip].ban_level = Counting(ip).ban_level
            \/ /\ ~(Counting(ip).failures + 1 < MaxFailures)
               /\ lastBan' = [lastBan EXCEPT ![ip] =
                               [at |-> now, long |-> BanLength(Counting(ip).ban_level + 1)]]
               /\ states'[ip].failures = 0
               /\ states'[ip].window_start = now
               /\ states'[ip].blocked_until = now + BanLength(Counting(ip).ban_level + 1)
               /\ states'[ip].ban_level = Counting(ip).ban_level + 1
<1>. DEFINE st == Counting(ip)
            ban == BanLength(st.ban_level + 1)
            more == [st EXCEPT !.failures = @ + 1]
            banned == [failures |-> 0, window_start |-> now,
                       blocked_until |-> now + ban, ban_level |-> st.ban_level + 1]
            put(e) == [i \in DOMAIN Swept \cup {ip} |-> IF i = ip THEN e ELSE Swept[i]]
<1>1. /\ now' = now
      /\ \/ st.failures + 1 < MaxFailures /\ states' = put(more) /\ lastBan' = lastBan
         \/ /\ ~(st.failures + 1 < MaxFailures) /\ states' = put(banned)
            /\ lastBan' = [lastBan EXCEPT ![ip] = [at |-> now, long |-> ban]]
  BY Zenon DEF record_failure
<1>2. st \in IpState
  BY CountingFrom, Zenon
<1>. HIDE DEF st
<1>3. ban \in Nat
  BY <1>2, BanIsBounded DEF IpState
<1>. HIDE DEF ban
<1>4. CASE st.failures + 1 < MaxFailures
  <2>1. /\ more \in IpState /\ more.failures = st.failures + 1
        /\ more.window_start = st.window_start /\ more.ban_level = st.ban_level
        /\ more.blocked_until = st.blocked_until
    BY <1>2, <1>4 DEF IpState
  <2>2. states' = put(more) /\ lastBan' = lastBan
    BY <1>1, <1>4, Zenon
  <2>. HIDE DEF more
  <2>3. /\ DOMAIN states' = {i \in DOMAIN states : Kept(states[i])} \cup {ip}
        /\ \A i \in DOMAIN states' \ {ip} : states'[i] = states[i]
        /\ states'[ip] = more
    BY <2>2, SweepLeaves, Zenon
  <2>4. Typed'
    BY <1>1, <2>1, <2>2, SweepLeaves, Zenon DEF Typed
  <2>. QED BY <1>4, <2>1, <2>2, <2>3, <2>4, Zenon DEF st
<1>5. CASE ~(st.failures + 1 < MaxFailures)
  <2>1. banned \in IpState
    BY <1>2, <1>3 DEF IpState, Typed
  <2>2. /\ states' = put(banned)
        /\ lastBan' = [lastBan EXCEPT ![ip] = [at |-> now, long |-> ban]]
    BY <1>1, <1>5, Zenon
  <2>3. /\ banned.failures = 0 /\ banned.window_start = now
        /\ banned.blocked_until = now + ban /\ banned.ban_level = st.ban_level + 1
    OBVIOUS
  <2>. HIDE DEF banned
  <2>4. /\ DOMAIN states' = {i \in DOMAIN states : Kept(states[i])} \cup {ip}
        /\ \A i \in DOMAIN states' \ {ip} : states'[i] = states[i]
        /\ states'[ip] = banned
    BY <2>2, SweepLeaves, Zenon
  <2>5. Typed'
    BY <1>1, <1>3, <2>1, <2>2, SweepLeaves, Zenon DEF Typed
  <2>. QED BY <1>5, <2>2, <2>3, <2>4, <2>5, Zenon DEF st, ban
<1>. QED BY <1>4, <1>5, Zenon

-----------------------------------------------------------------------------
(* The invariant holds at the start.                                        *)
LEMMA LimiterInitially == Init => LimiterInv
<1>. SUFFICES ASSUME Init PROVE LimiterInv
  OBVIOUS
<1>1. DOMAIN states = {} /\ now = 1 /\ states \in [DOMAIN states -> IpState]
  BY Zenon DEF Init
<1>2. \A ip \in IPs : lastBan[ip] = Never
  BY Zenon DEF Init
<1>3. lastBan \in [IPs -> [at : Nat, long : Nat]]
  BY Zenon DEF Init, Never
<1>. QED BY <1>1, <1>2, <1>3 DEF LimiterInv, Typed, Recent, Never

(* is_blocked keeps the invariant.                                          *)
LEMMA IsBlockedKeepsInv ==
  ASSUME LimiterInv, NEW ip \in IPs, is_blocked(ip)
  PROVE  LimiterInv'
<1>1. Typed /\ Typed' /\ now' = now /\ lastBan' = lastBan
  BY IsBlockedLeaves, Zenon DEF LimiterInv, is_blocked
<1>2. DOMAIN states' = {i \in DOMAIN states : Kept(states[i])}
  BY <1>1, IsBlockedLeaves, Zenon
<1>3. ASSUME NEW i \in DOMAIN states'
      PROVE  /\ i \in DOMAIN states
             /\ states[i] \in IpState /\ states'[i] \in IpState
             /\ states'[i].window_start = states[i].window_start
             /\ BanLength(states'[i].ban_level) = BanLength(states[i].ban_level)
             /\ states'[i].blocked_until <= states[i].blocked_until
             /\ \/ states'[i].blocked_until = states[i].blocked_until
                \/ states[i].blocked_until <= now
  BY <1>1, <1>2, <1>3, IsBlockedLeaves DEF Typed, IpState
<1>4. ASSUME NEW i \in DOMAIN states'
      PROVE  /\ states'[i].window_start <= now'
             /\ states'[i].blocked_until <= now' + BanLength(states'[i].ban_level)
  <2>1. BanLength(states[i].ban_level) \in Nat
    BY <1>3, <1>4, BanIsBounded, Zenon DEF IpState
  <2>. QED BY <1>1, <1>3, <1>4, <2>1 DEF LimiterInv, Typed, IpState
<1>5. ASSUME NEW i \in IPs, Recent(i)' PROVE Remembered(i)'
  <2>1. Recent(i) /\ Remembered(i)
    BY <1>1, <1>5, Zenon DEF Recent, LimiterInv
  <2>2. i \in DOMAIN states'
    BY <1>1, <1>2, <2>1 DEF Recent, Remembered, Kept, Typed, IpState
  <2>. QED BY <1>1, <1>3, <2>1, <2>2 DEF Remembered, Typed, IpState
<1>6. \A i \in IPs : lastBan'[i].at <= now'
  BY <1>1, Zenon DEF LimiterInv
<1>. QED BY <1>1, <1>4, <1>5, <1>6, Zenon DEF LimiterInv

(* record_failure keeps the invariant, whether it bans or only counts.      *)
LEMMA RecordFailureKeepsInv ==
  ASSUME LimiterInv, NEW ip \in IPs, record_failure(ip)
  PROVE  LimiterInv'
<1>. DEFINE st == Counting(ip)
            ban == BanLength(st.ban_level + 1)
<1>1. Typed /\ Typed' /\ now' = now
  BY RecordFailureLeaves, Zenon DEF LimiterInv, record_failure
<1>2. /\ st \in IpState /\ st.window_start <= now
      /\ st.blocked_until <= now + BanLength(st.ban_level)
  BY <1>1, CountingFrom, BanIsBounded DEF LimiterInv, Typed, IpState
<1>3. ban \in Nat \ {0} /\ BanLength(st.ban_level) \in Nat
  BY <1>2, BanIsBounded DEF IpState
<1>4. /\ ip \in DOMAIN states'
      /\ \A i \in DOMAIN states' : i # ip => i \in DOMAIN states /\ states'[i] = states[i]
      /\ \A i \in DOMAIN states : Kept(states[i]) => i \in DOMAIN states'
  BY <1>1, RecordFailureLeaves, ZenonT(30)
<1>5. \/ /\ lastBan' = lastBan
         /\ states'[ip].window_start = st.window_start
         /\ states'[ip].blocked_until = st.blocked_until
         /\ states'[ip].ban_level = st.ban_level
      \/ /\ lastBan' = [lastBan EXCEPT ![ip] = [at |-> now, long |-> ban]]
         /\ states'[ip].window_start = now
         /\ states'[ip].blocked_until = now + ban
         /\ states'[ip].ban_level = st.ban_level + 1
  BY <1>1, RecordFailureLeaves, Zenon
<1>6. Kept(states[ip]) /\ ip \in DOMAIN states =>
        /\ st.window_start >= states[ip].window_start
        /\ st.ban_level = states[ip].ban_level
        /\ st.blocked_until = states[ip].blocked_until
  BY <1>1, CountingFrom DEF LimiterInv, Typed, IpState
<1>. HIDE DEF st, ban
<1>7. CASE /\ lastBan' = lastBan
           /\ states'[ip].window_start = st.window_start
           /\ states'[ip].blocked_until = st.blocked_until
           /\ states'[ip].ban_level = st.ban_level
  <2>1. ASSUME NEW i \in DOMAIN states'
        PROVE  /\ states'[i].window_start <= now'
               /\ states'[i].blocked_until <= now' + BanLength(states'[i].ban_level)
    <3>1. CASE i = ip
      BY <1>1, <1>2, <1>7, <3>1, Zenon
    <3>2. CASE i # ip
      BY <1>1, <1>4, <2>1, <3>2, Zenon DEF LimiterInv
    <3>. QED BY <3>1, <3>2, Zenon
  <2>2. ASSUME NEW i \in IPs, Recent(i)' PROVE Remembered(i)'
    <3>1. Recent(i) /\ Remembered(i)
      BY <1>1, <1>7, <2>2, Zenon DEF Recent, LimiterInv
    <3>2. Kept(states[i])
      BY <1>1, <3>1 DEF Recent, Remembered, Kept, Typed, IpState
    <3>3. CASE i # ip
      BY <1>1, <1>4, <1>7, <3>1, <3>2, <3>3, Zenon DEF Remembered
    <3>4. CASE i = ip
      BY <1>1, <1>2, <1>4, <1>6, <1>7, <3>1, <3>2, <3>4 DEF Remembered, Typed, IpState
    <3>. QED BY <3>3, <3>4, Zenon
  <2>3. \A i \in IPs : lastBan'[i].at <= now'
    BY <1>1, <1>7, Zenon DEF LimiterInv
  <2>. QED BY <1>1, <2>1, <2>2, <2>3, Zenon DEF LimiterInv
<1>8. CASE /\ lastBan' = [lastBan EXCEPT ![ip] = [at |-> now, long |-> ban]]
           /\ states'[ip].window_start = now
           /\ states'[ip].blocked_until = now + ban
           /\ states'[ip].ban_level = st.ban_level + 1
  <2>1. lastBan'[ip].at = now /\ lastBan'[ip].long = ban
    BY <1>1, <1>8, Zenon DEF Typed
  <2>2. \A i \in IPs : i # ip => lastBan'[i] = lastBan[i]
    BY <1>1, <1>8, Zenon DEF Typed
  <2>3. BanLength(states'[ip].ban_level) = ban
    BY <1>8, Zenon DEF ban
  <2>4. ASSUME NEW i \in DOMAIN states'
        PROVE  /\ states'[i].window_start <= now'
               /\ states'[i].blocked_until <= now' + BanLength(states'[i].ban_level)
    <3>1. CASE i = ip
      BY <1>1, <1>3, <1>8, <2>3, <3>1 DEF Typed
    <3>2. CASE i # ip
      BY <1>1, <1>4, <2>4, <3>2, Zenon DEF LimiterInv
    <3>. QED BY <3>1, <3>2, Zenon
  <2>5. ASSUME NEW i \in IPs, Recent(i)' PROVE Remembered(i)'
    <3>1. CASE i = ip
      BY <1>1, <1>3, <1>4, <1>8, <2>1, <2>3, <3>1 DEF Remembered, Typed
    <3>2. CASE i # ip
      <4>1. Recent(i) /\ Remembered(i)
        BY <1>1, <2>2, <2>5, <3>2, Zenon DEF Recent, LimiterInv
      <4>2. Kept(states[i])
        BY <1>1, <4>1 DEF Recent, Remembered, Kept, Typed, IpState
      <4>. QED BY <1>1, <1>4, <2>2, <3>2, <4>1, <4>2, Zenon DEF Remembered
    <3>. QED BY <3>1, <3>2, Zenon
  <2>6. ASSUME NEW i \in IPs PROVE lastBan'[i].at <= now'
    BY <1>1, <2>1, <2>2 DEF LimiterInv, Typed
  <2>. QED BY <1>1, <2>4, <2>5, <2>6, Zenon DEF LimiterInv
<1>. QED BY <1>5, <1>7, <1>8, Zenon

(* So does time.                                                            *)
LEMMA TickKeepsInv ==
  ASSUME LimiterInv, Tick
  PROVE  LimiterInv'
<1>1. /\ now' = now + 1 /\ now' \in Nat \ {0} /\ UNCHANGED <<states, lastBan>>
      /\ Typed /\ Typed'
  BY DEF Tick, LimiterInv, Typed
<1>2. \A i \in DOMAIN states :
        /\ states[i].window_start <= now'
        /\ states[i].blocked_until <= now' + BanLength(states[i].ban_level)
  BY <1>1, BanIsBounded DEF LimiterInv, Typed, IpState
<1>3. ASSUME NEW i \in IPs, Recent(i)' PROVE Remembered(i)'
  <2>1. Recent(i)
    BY <1>1, <1>3 DEF Recent, Typed
  <2>. QED BY <1>1, <2>1 DEF LimiterInv, Remembered, Typed
<1>4. \A i \in IPs : lastBan'[i].at <= now'
  BY <1>1 DEF LimiterInv, Typed
<1>. QED BY <1>1, <1>2, <1>3, <1>4, Zenon DEF LimiterInv

(* The invariant holds in every state.                                      *)
LEMMA LimiterInductive == Spec => []LimiterInv
<1>1. LimiterInv /\ [Next]_vars => LimiterInv'
  <2>. SUFFICES ASSUME LimiterInv, [Next]_vars PROVE LimiterInv'
    OBVIOUS
  <2>1. CASE Next
    BY <2>1, IsBlockedKeepsInv, RecordFailureKeepsInv, TickKeepsInv, Zenon DEF Next
  <2>2. CASE UNCHANGED vars
    BY <2>2, Zenon DEF vars, LimiterInv, Typed, Recent, Remembered
  <2>. QED BY <2>1, <2>2, Zenon
<1>. QED BY <1>1, LimiterInitially, PTL DEF Spec

-----------------------------------------------------------------------------
(* No ban reaches further than ban_max_secs from now (record_failure).      *)
THEOREM BansAreShort == Spec => []BansAreBounded
<1>1. LimiterInv => BansAreBounded
  <2>. SUFFICES ASSUME LimiterInv, NEW ip \in DOMAIN states
                PROVE  states[ip].blocked_until <= now + BanMax
    BY Zenon DEF BansAreBounded
  <2>1. states[ip] \in IpState
    BY Zenon DEF LimiterInv, Typed
  <2>2. BanLength(states[ip].ban_level) \in Nat /\ BanLength(states[ip].ban_level) <= BanMax
    BY <2>1, BanIsBounded, Zenon DEF IpState
  <2>. QED BY <2>1, <2>2 DEF LimiterInv, Typed, IpState
<1>. QED BY <1>1, LimiterInductive, PTL

(* Only time ends a ban: no call of is_blocked or record_failure, for any   *)
(* address and with its sweep, ends it early or shortens it.                *)
THEOREM OnlyTimeEndsBans == Spec => BanOutlastsCalls
<1>. DEFINE Outlasts ==
       \A ip \in IPs : (Blocked(ip) /\ now' = now) =>
         /\ Blocked(ip)'
         /\ states'[ip].blocked_until >= states[ip].blocked_until
<1>1. ASSUME LimiterInv, [Next]_vars PROVE Outlasts
  <2>. SUFFICES ASSUME NEW ip \in IPs, Blocked(ip), now' = now
                PROVE  /\ Blocked(ip)'
                       /\ states'[ip].blocked_until >= states[ip].blocked_until
    OBVIOUS
  <2>0. /\ Typed /\ ip \in DOMAIN states /\ now < states[ip].blocked_until
        /\ states[ip] \in IpState /\ Kept(states[ip])
    BY <1>1, Zenon DEF LimiterInv, Typed, Blocked, Kept
  <2>1. ASSUME NEW i \in IPs, is_blocked(i) PROVE
                       /\ ip \in DOMAIN states'
                       /\ states'[ip].blocked_until = states[ip].blocked_until
    <3>1. ip \in DOMAIN states'
      BY <2>0, <2>1, IsBlockedLeaves, Zenon
    <3>2. \/ states'[ip].blocked_until = states[ip].blocked_until
          \/ states[ip].blocked_until <= now
      BY <2>0, <2>1, <3>1, IsBlockedLeaves, Zenon
    <3>. QED BY <2>0, <3>1, <3>2 DEF Typed, IpState
  <2>2. ASSUME NEW i \in IPs, record_failure(i) PROVE
                       /\ ip \in DOMAIN states'
                       /\ states'[ip].blocked_until >= states[ip].blocked_until
    <3>1. CASE i # ip
      <4>1. ip \in DOMAIN states' /\ states'[ip] = states[ip]
        BY <2>0, <2>2, <3>1, RecordFailureLeaves, ZenonT(30)
      <4>. QED BY <2>0, <4>1 DEF IpState
    <3>2. CASE i = ip
      <4>. DEFINE level == Counting(ip).ban_level
                  ban == BanLength(level + 1)
      <4>1. level = states[ip].ban_level /\ Counting(ip).blocked_until = states[ip].blocked_until
        BY <2>0, CountingFrom, Zenon
      <4>2. /\ ip \in DOMAIN states'
            /\ states'[ip].blocked_until \in {Counting(ip).blocked_until, now + ban}
        BY <2>0, <2>2, <3>2, RecordFailureLeaves, Zenon
      <4>3. level \in Nat /\ BanLength(level) \in Nat /\ ban \in Nat /\ BanLength(level) <= ban
        BY <2>0, <4>1, BansGrow, BanIsBounded DEF IpState
      <4>4. states[ip].blocked_until <= now + BanLength(level)
        BY <1>1, <2>0, <4>1, Zenon DEF LimiterInv
      <4>. HIDE DEF level, ban
      <4>. QED BY <2>0, <4>1, <4>2, <4>3, <4>4 DEF Typed, IpState
    <3>. QED BY <3>1, <3>2, Zenon
  <2>3. CASE Next
    <3>1. ~Tick
      BY <2>0 DEF Tick, Typed
    <3>2. ip \in DOMAIN states' /\ states'[ip].blocked_until >= states[ip].blocked_until
      BY <2>0, <2>1, <2>2, <2>3, <3>1 DEF Next, IpState
    <3>3. states'[ip].blocked_until \in Nat
      BY <2>0, <2>3, <3>1, <3>2, IsBlockedLeaves, RecordFailureLeaves, Zenon
         DEF Next, Typed, IpState
    <3>. QED BY <2>0, <3>2, <3>3 DEF Blocked, Typed, IpState
  <2>4. CASE UNCHANGED vars
    BY <2>0, <2>4 DEF vars, Blocked, IpState
  <2>. QED BY <1>1, <2>3, <2>4, Zenon
<1>2. LimiterInv /\ [Next]_vars => [Outlasts]_vars
  BY <1>1, Zenon
<1>. QED BY <1>2, LimiterInductive, PTL DEF Spec, BanOutlastsCalls

(* Who is banned again soon is banned for at least as long as before.       *)
THEOREM BansEscalate == Spec => PersistentOffenderEscalates
<1>. DEFINE Longer(ip) ==
       LET old == lastBan[ip] new == lastBan'[ip]
       IN  (/\ old # Never /\ new.at = now /\ new # old
            /\ now - old.at < Window \/ now < old.at + old.long)
           => new.long >= old.long
<1>1. ASSUME LimiterInv, [Next]_vars, NEW ip \in IPs PROVE Longer(ip)
  <2>. SUFFICES ASSUME Recent(ip), lastBan'[ip] # lastBan[ip]
                PROVE  lastBan'[ip].long >= lastBan[ip].long
    BY Zenon DEF Recent
  <2>1. /\ Typed /\ Remembered(ip) /\ ip \in DOMAIN states
        /\ states[ip] \in IpState /\ Kept(states[ip])
    BY <1>1 DEF LimiterInv, Typed, Recent, Remembered, Kept, IpState
  <2>2. PICK i \in IPs : record_failure(i)
    BY <1>1, Zenon DEF Next, vars, is_blocked, Tick
  <2>3. i = ip
    BY <2>1, <2>2, RecordFailureLeaves, ZenonT(30) DEF Typed
  <2>4. lastBan'[ip].long = BanLength(states[ip].ban_level + 1)
    <3>1. Counting(ip).ban_level = states[ip].ban_level
      BY <2>1, CountingFrom, Zenon
    <3>2. lastBan' = [lastBan EXCEPT ![ip] =
                       [at |-> now, long |-> BanLength(Counting(ip).ban_level + 1)]]
      BY <2>1, <2>2, <2>3, RecordFailureLeaves, Zenon
    <3>. QED BY <2>1, <3>1, <3>2, Zenon DEF Typed
  <2>5. BanLength(states[ip].ban_level + 1) >= BanLength(states[ip].ban_level)
    BY <2>1, BansGrow, BanIsBounded, Zenon DEF IpState
  <2>6. /\ BanLength(states[ip].ban_level) \in Nat
        /\ BanLength(states[ip].ban_level + 1) \in Nat
    BY <2>1, BanIsBounded DEF IpState
  <2>. QED BY <2>1, <2>4, <2>5, <2>6 DEF Remembered, Typed
<1>2. LimiterInv /\ [Next]_vars => [\A ip \in IPs : Longer(ip)]_vars
  BY <1>1, Zenon
<1>. QED BY <1>2, LimiterInductive, PTL DEF Spec, PersistentOffenderEscalates

-----------------------------------------------------------------------------
(* A sweep and a look at an address are invisible to the callers.           *)
LEMMA IsBlockedStutters ==
  ASSUME LimiterInv, NEW ip \in IPs, is_blocked(ip)
  PROVE  AbsFails' = AbsFails /\ AbsBanned' = AbsBanned
<1>1. Typed /\ Typed' /\ now' = now
  BY IsBlockedLeaves, Zenon DEF LimiterInv, is_blocked
<1>2. ASSUME NEW i \in IPs
      PROVE  /\ (IF i \in DOMAIN states' THEN states'[i].failures ELSE 0)
                 = (IF i \in DOMAIN states THEN states[i].failures ELSE 0)
             /\ Blocked(i)' <=> Blocked(i)
  <2>1. CASE i \in DOMAIN states /\ Kept(states[i])
    <3>1. /\ i \in DOMAIN states' /\ states'[i].failures = states[i].failures
          /\ \/ states'[i].blocked_until = states[i].blocked_until
             \/ states[i].blocked_until <= now /\ states'[i].blocked_until = 0
      BY <1>1, <2>1, IsBlockedLeaves, Zenon
    <3>. QED BY <1>1, <2>1, <3>1 DEF Blocked, Typed, IpState
  <2>2. CASE i \in DOMAIN states /\ ~Kept(states[i])
    <3>1. i \notin DOMAIN states'
      BY <1>1, <2>2, IsBlockedLeaves, Zenon
    <3>2. states[i].failures = 0 /\ ~(now < states[i].blocked_until)
      BY <1>1, <2>2 DEF Kept, Typed, IpState
    <3>. QED BY <1>1, <2>2, <3>1, <3>2, Zenon DEF Blocked
  <2>3. CASE i \notin DOMAIN states
    <3>1. i \notin DOMAIN states'
      BY <1>1, <2>3, IsBlockedLeaves, Zenon
    <3>. QED BY <2>3, <3>1, Zenon DEF Blocked
  <2>. QED BY <2>1, <2>2, <2>3, Zenon
<1>. QED BY <1>2, Zenon DEF AbsFails, AbsBanned

(* A recorded failure counts from the current number or from zero, and      *)
(* bans exactly when it reaches the threshold.                              *)
LEMMA RecordFailureFails ==
  ASSUME LimiterInv, NEW ip \in IPs, record_failure(ip)
  PROVE  Ban!Fail(ip)
<1>. DEFINE base == Counting(ip).failures
<1>1. Typed /\ Typed' /\ now' = now
  BY RecordFailureLeaves, Zenon DEF LimiterInv, record_failure
<1>2. base \in Nat /\ base \in {AbsFails[ip], 0}
  BY <1>1, CountingFrom DEF AbsFails, IpState
<1>3. /\ Counting(ip).blocked_until \in Nat /\ Counting(ip).ban_level \in Nat
      /\ now < Counting(ip).blocked_until <=> Blocked(ip)
  <2>1. CASE ip \in DOMAIN states /\ Kept(states[ip])
    BY <1>1, <2>1, CountingFrom, Zenon DEF Blocked, IpState
  <2>2. CASE ~(ip \in DOMAIN states /\ Kept(states[ip]))
    <3>1. ~Blocked(ip)
      BY <1>1, <2>2, Zenon DEF Blocked, Kept
    <3>2. Counting(ip).blocked_until = 0 /\ Counting(ip).ban_level = 0
      BY <1>1, <2>2, CountingFrom, Zenon
    <3>. QED BY <1>1, <3>1, <3>2 DEF Typed
  <2>. QED BY <2>1, <2>2, Zenon
<1>4. ASSUME NEW i \in IPs, i # ip
      PROVE  /\ (IF i \in DOMAIN states' THEN states'[i].failures ELSE 0)
                 = (IF i \in DOMAIN states THEN states[i].failures ELSE 0)
             /\ Blocked(i)' <=> Blocked(i)
  <2>1. CASE i \in DOMAIN states /\ Kept(states[i])
    <3>1. i \in DOMAIN states' /\ states'[i] = states[i]
      BY <1>1, <1>4, <2>1, RecordFailureLeaves, ZenonT(30)
    <3>. QED BY <1>1, <2>1, <3>1, Zenon DEF Blocked
  <2>2. CASE i \in DOMAIN states /\ ~Kept(states[i])
    <3>0. DOMAIN states' = {j \in DOMAIN states : Kept(states[j])} \cup {ip}
      BY <1>1, RecordFailureLeaves, Zenon
    <3>1. i \notin DOMAIN states'
      BY <1>4, <2>2, <3>0, Zenon
    <3>2. states[i].failures = 0 /\ ~(now < states[i].blocked_until)
      BY <1>1, <2>2 DEF Kept, Typed, IpState
    <3>. QED BY <1>1, <2>2, <3>1, <3>2, Zenon DEF Blocked
  <2>3. CASE i \notin DOMAIN states
    <3>1. i \notin DOMAIN states'
      BY <1>1, <1>4, <2>3, RecordFailureLeaves, ZenonT(30)
    <3>. QED BY <2>3, <3>1, Zenon DEF Blocked
  <2>. QED BY <2>1, <2>2, <2>3, Zenon
<1>5. CASE base + 1 < MaxFailures
  <2>1. /\ ip \in DOMAIN states' /\ states'[ip].failures = base + 1
        /\ states'[ip].blocked_until = Counting(ip).blocked_until
    BY <1>1, <1>5, RecordFailureLeaves, Zenon
  <2>2. Blocked(ip)' <=> Blocked(ip)
    BY <1>1, <1>3, <2>1, Zenon DEF Blocked
  <2>. HIDE DEF base
  <2>3. AbsFails' = [AbsFails EXCEPT ![ip] = base + 1]
    BY <1>4, <2>1, Zenon DEF AbsFails
  <2>4. AbsBanned' = AbsBanned
    BY <1>4, <2>2, Zenon DEF AbsBanned
  <2>. QED BY <1>2, <1>5, <2>3, <2>4, Zenon DEF Ban!Fail
<1>6. CASE ~(base + 1 < MaxFailures)
  <2>. DEFINE ban == BanLength(Counting(ip).ban_level + 1)
  <2>1. /\ ip \in DOMAIN states' /\ states'[ip].failures = 0
        /\ states'[ip].blocked_until = now + ban
    BY <1>1, <1>6, RecordFailureLeaves, Zenon
  <2>2. ban \in Nat \ {0}
    BY <1>3, BanIsBounded
  <2>. HIDE DEF base, ban
  <2>3. Blocked(ip)'
    BY <1>1, <2>1, <2>2 DEF Blocked, Typed
  <2>4. AbsFails' = [AbsFails EXCEPT ![ip] = 0]
    BY <1>4, <2>1, Zenon DEF AbsFails
  <2>5. AbsBanned' = AbsBanned \cup {ip}
    BY <1>4, <2>3, Zenon DEF AbsBanned
  <2>. QED BY <1>2, <1>6, <2>4, <2>5, Zenon DEF Ban!Fail
<1>. QED BY <1>5, <1>6, Zenon

(* Time can only end bans.                                                  *)
LEMMA TickEndsBans ==
  ASSUME LimiterInv, Tick
  PROVE  \/ AbsFails' = AbsFails /\ AbsBanned' = AbsBanned
         \/ \E over \in SUBSET IPs : Ban!BansEnd(over)
<1>1. Typed /\ now' = now + 1 /\ states' = states
  BY Zenon DEF LimiterInv, Tick
<1>2. AbsFails' = AbsFails
  BY <1>1, Zenon DEF AbsFails
<1>3. \A i \in IPs : Blocked(i)' => Blocked(i)
  BY <1>1 DEF Blocked, Typed, IpState
<1>4. AbsBanned' \subseteq AbsBanned /\ AbsBanned \subseteq IPs
  BY <1>3, Zenon DEF AbsBanned
<1>. DEFINE over == AbsBanned \ AbsBanned'
<1>5. AbsBanned' = AbsBanned \ over /\ over \in SUBSET IPs /\ over \subseteq AbsBanned
  BY <1>4, Zenon
<1>6. CASE over = {}
  BY <1>2, <1>5, <1>6, Zenon
<1>7. CASE over # {}
  BY <1>2, <1>5, <1>7, Zenon DEF Ban!BansEnd
<1>. QED BY <1>6, <1>7, Zenon

(* The limiter implements AuthBan, the promise that Server builds on.       *)
THEOREM LimiterImplementsBan == Spec => ImplementsAuthBan
<1>1. Init => Ban!BanInit
  BY Zenon DEF Init, Ban!BanInit, AbsFails, AbsBanned, Blocked
<1>2. LimiterInv /\ [Next]_vars => [Ban!BanNext]_(Ban!banVars)
  <2>. SUFFICES ASSUME LimiterInv, [Next]_vars PROVE [Ban!BanNext]_(Ban!banVars)
    OBVIOUS
  <2>1. CASE \E ip \in IPs : is_blocked(ip)
    BY <2>1, IsBlockedStutters, Zenon DEF Ban!banVars
  <2>2. CASE \E ip \in IPs : record_failure(ip)
    BY <2>2, RecordFailureFails, Zenon DEF Ban!BanNext
  <2>3. CASE Tick
    BY <2>3, TickEndsBans, Zenon DEF Ban!BanNext, Ban!banVars
  <2>4. CASE UNCHANGED vars
    BY <2>4, Zenon DEF vars, Ban!banVars, AbsFails, AbsBanned, Blocked
  <2>. QED BY <2>1, <2>2, <2>3, <2>4, Zenon DEF Next
<1>. QED BY <1>1, <1>2, LimiterInductive, PTL DEF Spec, ImplementsAuthBan, Ban!BanSpec

-----------------------------------------------------------------------------
(***************************************************************************)
(* The limiter of RPCs.  The window that is open holds the last `count` of *)
(* the calls let through; the window before it, which ended no later than  *)
(* this one began, held at most `limit`; whatever came earlier lies more   *)
(* than a second before this one.                                          *)
(***************************************************************************)
ApiTyped ==
  /\ limit \in Nat /\ clock \in Nat /\ count \in Nat
  /\ start \in Nat /\ start <= clock
  /\ passed \in Seq(Nat)

Windows ==
  /\ count <= limit /\ count <= Len(passed)
  /\ \A j \in 1 .. Len(passed) :
       /\ passed[j] < start + RpcWindow
       /\ j + count <= Len(passed) => passed[j] < start
       /\ j + count + limit <= Len(passed) => passed[j] + RpcWindow < start
       /\ j + count > Len(passed) => passed[j] >= start

Spaced ==
  \A i \in 1 .. Len(passed) :
    i + 2 * limit <= Len(passed) => passed[i + 2 * limit] >= passed[i] + RpcWindow

ApiInv ==
  /\ ApiTyped
  /\ limit # 0 => Windows /\ Spaced
  /\ answered = "exhausted" => limit # 0 /\ count = limit /\ clock < start + RpcWindow

-----------------------------------------------------------------------------
USE ApiAssumption

(* What Append leaves of a sequence of instants and what it adds.           *)
LEMMA AppendedInstant ==
  ASSUME NEW s \in Seq(Nat), NEW t \in Nat
  PROVE  /\ Append(s, t) \in Seq(Nat)
         /\ Len(s) \in Nat /\ Len(Append(s, t)) = Len(s) + 1
         /\ \A j \in 1 .. Len(s) : Append(s, t)[j] = s[j] /\ s[j] \in Nat
         /\ Append(s, t)[Len(s) + 1] = t
<1>1. Append(s, t) \in Seq(Nat) /\ Len(s) \in Nat /\ Len(Append(s, t)) = Len(s) + 1
  OBVIOUS
<1>2. \A j \in 1 .. Len(s) : Append(s, t)[j] = s[j] /\ s[j] \in Nat
  OBVIOUS
<1>3. Append(s, t)[Len(s) + 1] = t
  OBVIOUS
<1>. QED BY <1>1, <1>2, <1>3, Zenon

(* A call let through when the window has run out starts the next one.      *)
LEMMA NextWindow ==
  ASSUME ApiTyped, Windows, Spaced, limit # 0, limit' = limit,
         start + RpcWindow <= clock, start' = clock, count' = 1,
         passed' = Append(passed, clock)
  PROVE  Windows' /\ Spaced'
<1>. DEFINE N == Len(passed)
<1>1. /\ passed' \in Seq(Nat) /\ N \in Nat /\ Len(passed') = N + 1
      /\ \A j \in 1 .. N : passed'[j] = passed[j] /\ passed[j] \in Nat
      /\ passed'[N + 1] = clock
  BY AppendedInstant DEF ApiTyped
<1>2. \A j \in 1 .. N : passed[j] < clock
  BY <1>1 DEF ApiTyped, Windows
<1>3. \A j \in 1 .. N : j + limit <= N => passed[j] + RpcWindow < clock
  <2>1. \A j \in 1 .. N : j + limit <= N => j + count <= N
    BY <1>1 DEF ApiTyped, Windows
  <2>2. \A j \in 1 .. N : j + limit <= N => passed[j] < start
    BY <2>1, Zenon DEF Windows
  <2>. QED BY <1>1, <2>2 DEF ApiTyped
<1>4. Windows'
  <2>1. count' <= limit' /\ count' <= Len(passed')
    BY <1>1 DEF ApiTyped
  <2>2. ASSUME NEW j \in 1 .. N
        PROVE  /\ passed'[j] < clock + RpcWindow /\ passed'[j] < clock
               /\ j + 1 + limit <= N + 1 => passed'[j] + RpcWindow < clock
               /\ ~(j + 1 > N + 1)
    BY <1>1, <1>2, <1>3 DEF ApiTyped
  <2>3. /\ passed'[N + 1] < clock + RpcWindow /\ passed'[N + 1] >= clock
        /\ ~(N + 1 + 1 <= N + 1) /\ ~(N + 1 + 1 + limit <= N + 1)
    BY <1>1 DEF ApiTyped
  <2>4. \A j \in 1 .. Len(passed') : j \in 1 .. N \/ j = N + 1
    BY <1>1
  <2>. QED BY <1>1, <2>1, <2>2, <2>3, <2>4, Zenon DEF Windows
<1>5. Spaced'
  <2>. SUFFICES ASSUME NEW i \in 1 .. N + 1, i + 2 * limit <= N + 1
                PROVE  passed'[i + 2 * limit] >= passed'[i] + RpcWindow
    BY <1>1, Zenon DEF Spaced
  <2>1. i \in 1 .. N /\ i + limit <= N
    BY <1>1 DEF ApiTyped
  <2>2. CASE i + 2 * limit = N + 1
    BY <1>1, <1>3, <2>1, <2>2 DEF ApiTyped
  <2>3. CASE i + 2 * limit <= N
    BY <1>1, <2>1, <2>3 DEF ApiTyped, Spaced
  <2>4. i + 2 * limit = N + 1 \/ i + 2 * limit <= N
    <3>1. \A k, n \in Nat : k <= n + 1 => k = n + 1 \/ k <= n
      OBVIOUS
    <3>2. i + 2 * limit \in Nat
      BY DEF ApiTyped
    <3>. QED BY <1>1, <3>1, <3>2, Zenon
  <2>. QED BY <2>2, <2>3, <2>4, Zenon
<1>. QED BY <1>4, <1>5, Zenon

(* A call let through in the open window is one more of it.                 *)
LEMMA SameWindow ==
  ASSUME ApiTyped, Windows, Spaced, limit # 0, limit' = limit,
         clock < start + RpcWindow, start' = start, count < limit, count' = count + 1,
         passed' = Append(passed, clock)
  PROVE  Windows' /\ Spaced'
<1>. DEFINE N == Len(passed)
<1>1. /\ passed' \in Seq(Nat) /\ N \in Nat /\ Len(passed') = N + 1
      /\ \A j \in 1 .. N : passed'[j] = passed[j] /\ passed[j] \in Nat
      /\ passed'[N + 1] = clock
  BY AppendedInstant DEF ApiTyped
<1>2. Windows'
  <2>1. count' <= limit' /\ count' <= Len(passed')
    BY <1>1 DEF ApiTyped, Windows
  <2>2. ASSUME NEW j \in 1 .. N
        PROVE  /\ passed'[j] < start + RpcWindow
               /\ j + count + 1 <= N + 1 => passed'[j] < start
               /\ j + count + 1 + limit <= N + 1 => passed'[j] + RpcWindow < start
               /\ j + count + 1 > N + 1 => passed'[j] >= start
    BY <1>1 DEF ApiTyped, Windows
  <2>3. /\ passed'[N + 1] < start + RpcWindow /\ passed'[N + 1] >= start
        /\ ~(N + 1 + count + 1 <= N + 1) /\ ~(N + 1 + count + 1 + limit <= N + 1)
    BY <1>1 DEF ApiTyped
  <2>4. \A j \in 1 .. Len(passed') : j \in 1 .. N \/ j = N + 1
    BY <1>1
  <2>5. \A j \in 1 .. N + 1 : j + count' = j + count + 1
    BY <1>1 DEF ApiTyped
  <2>. HIDE DEF N
  <2>. QED BY <1>1, <2>1, <2>2, <2>3, <2>4, <2>5 DEF Windows, N
<1>3. Spaced'
  <2>. SUFFICES ASSUME NEW i \in 1 .. N + 1, i + 2 * limit <= N + 1
                PROVE  passed'[i + 2 * limit] >= passed'[i] + RpcWindow
    BY <1>1, Zenon DEF Spaced
  <2>1. i \in 1 .. N /\ i + limit <= N
    BY <1>1 DEF ApiTyped
  <2>2. CASE i + 2 * limit = N + 1
    <3>1. i + count + limit <= N
      BY <1>1, <2>2 DEF ApiTyped
    <3>2. passed[i] + RpcWindow < start
      BY <3>1, <2>1, Zenon DEF Windows
    <3>. QED BY <1>1, <2>1, <2>2, <3>2, SMTT(30) DEF ApiTyped
  <2>3. CASE i + 2 * limit <= N
    BY <1>1, <2>1, <2>3 DEF ApiTyped, Spaced
  <2>4. i + 2 * limit = N + 1 \/ i + 2 * limit <= N
    <3>1. \A k, n \in Nat : k <= n + 1 => k = n + 1 \/ k <= n
      OBVIOUS
    <3>2. i + 2 * limit \in Nat
      BY DEF ApiTyped
    <3>. QED BY <1>1, <3>1, <3>2, Zenon
  <2>. QED BY <2>2, <2>3, <2>4, Zenon
<1>. QED BY <1>2, <1>3, Zenon

(* A call keeps the invariant, whether it is let through or refused.        *)
LEMMA RpcKeepsInv ==
  ASSUME ApiInv, NEW valid \in BOOLEAN, Rpc(valid)
  PROVE  ApiInv'
<1>1. ApiTyped /\ limit' = limit /\ clock' = clock
  BY Zenon DEF ApiInv, Rpc
<1>2. check_auth(valid) # "exhausted"
  BY Zenon DEF check_auth
<1>3. Append(passed, clock) \in Seq(Nat)
  BY <1>1 DEF ApiTyped
<1>4. CASE limit = 0
  BY <1>1, <1>2, <1>3, <1>4, Zenon DEF ApiInv, Rpc, LetThrough, ApiTyped
<1>5. CASE limit # 0
  <2>1. Windows /\ Spaced /\ check(valid)
    BY <1>5, Zenon DEF ApiInv, Rpc
  <2>2. CASE start + RpcWindow <= clock
    <3>1. /\ start' = clock /\ count' = 1 /\ passed' = Append(passed, clock)
          /\ answered' = check_auth(valid)
      BY <1>1, <1>5, <2>1, <2>2 DEF check, LetThrough, ApiTyped
    <3>2. Windows' /\ Spaced'
      BY <1>1, <1>5, <2>1, <2>2, <3>1, NextWindow, Zenon
    <3>. QED BY <1>1, <1>2, <1>3, <3>1, <3>2 DEF ApiInv, ApiTyped
  <2>3. CASE clock < start + RpcWindow
    <3>1. /\ start' = start
          /\ IF count >= limit
             THEN count' = count /\ answered' = "exhausted" /\ passed' = passed
             ELSE count' = count + 1 /\ LetThrough(valid)
      BY <1>1, <2>1, <2>3 DEF check, ApiTyped
    <3>2. CASE count >= limit
      <4>1. count = limit
        BY <1>1, <2>1, <3>2 DEF ApiTyped, Windows
      <4>. QED BY <1>1, <1>5, <2>1, <2>3, <3>1, <3>2, <4>1, Zenon
               DEF ApiInv, ApiTyped, Windows, Spaced
    <3>3. CASE count < limit
      <4>1. count' = count + 1 /\ passed' = Append(passed, clock) /\ answered' = check_auth(valid)
        BY <1>1, <3>1, <3>3 DEF LetThrough, ApiTyped
      <4>2. Windows' /\ Spaced'
        BY <1>1, <1>5, <2>1, <2>3, <3>1, <3>3, <4>1, SameWindow, Zenon
      <4>. QED BY <1>1, <1>2, <1>3, <3>1, <4>1, <4>2 DEF ApiInv, ApiTyped
    <3>. QED BY <1>1, <3>2, <3>3 DEF ApiTyped
  <2>. QED BY <1>1, <2>2, <2>3 DEF ApiTyped
<1>. QED BY <1>4, <1>5, Zenon

(* The invariant of the limiter of RPCs.                                    *)
LEMMA ApiInductive == ApiSpec => []ApiInv
<1>1. ApiInit => ApiInv
  BY DEF ApiInit, ApiInv, ApiTyped, Windows, Spaced
<1>2. ApiInv /\ [ApiNext]_apiVars => ApiInv'
  <2>1. ApiInv /\ ApiTick => ApiInv'
    BY DEF ApiInv, ApiTick, ApiTyped, Windows, Spaced
  <2>2. ApiInv /\ UNCHANGED apiVars => ApiInv'
    BY Zenon DEF ApiInv, apiVars, ApiTyped, Windows, Spaced
  <2>. QED BY <2>1, <2>2, RpcKeepsInv, Zenon DEF ApiNext
<1>. QED BY <1>1, <1>2, PTL DEF ApiSpec

(* RpcsAreLimited of check() in api/rate_limit.rs: never more than twice    *)
(* the limit within a second, and no refusal before the limit was used up   *)
(* within the last one; for every limit and however long the API runs.      *)
THEOREM RpcsStayLimited == ApiSpec => []RpcsAreLimited
<1>1. ApiInv => RpcsAreLimited
  <2>. SUFFICES ASSUME ApiInv, answered = "exhausted"
                PROVE  /\ limit # 0 /\ limit <= Len(passed)
                       /\ passed[Len(passed) - limit + 1] + RpcWindow > clock
    BY Zenon DEF ApiInv, Spaced, RpcsAreLimited
  <2>1. /\ limit # 0 /\ count = limit /\ clock < start + RpcWindow
        /\ ApiTyped /\ Windows /\ limit <= Len(passed)
    BY Zenon DEF ApiInv, Windows
  <2>. DEFINE j == Len(passed) - limit + 1
  <2>2. j \in 1 .. Len(passed) /\ j + count > Len(passed)
    BY <2>1 DEF ApiTyped
  <2>3. passed[j] >= start /\ passed[j] \in Nat
    BY <2>1, <2>2 DEF Windows, ApiTyped
  <2>. QED BY <2>1, <2>3 DEF ApiTyped
<1>. QED BY <1>1, ApiInductive, PTL

(* The two limiters as they run in one process: neither disturbs the other, *)
(* so each keeps what is proved of it alone.                                *)
THEOREM LimitersKeepApart ==
  LimitersSpec => /\ ImplementsAuthBan /\ BanOutlastsCalls
                  /\ PersistentOffenderEscalates /\ []RpcsAreLimited
<1>1. LimitersInit => Init /\ ApiInit
  BY Zenon DEF LimitersInit
<1>2. [LimitersNext]_limiterVars => [Next]_vars /\ [ApiNext]_apiVars
  BY Zenon DEF LimitersNext, limiterVars
<1>3. LimitersSpec => Spec /\ ApiSpec
  BY <1>1, <1>2, PTL DEF LimitersSpec, Spec, ApiSpec
<1>. QED BY <1>3, LimiterImplementsBan, OnlyTimeEndsBans, BansEscalate,
         RpcsStayLimited, PTL
=============================================================================
