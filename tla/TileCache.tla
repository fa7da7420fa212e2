----------------------------- MODULE TileCache -----------------------------
(***************************************************************************)
(* The memory cache of one HTTP thread (ts_cache.c) as serve_tile and      *)
(* run_loop use it: slots sorted by key, a limit on the sum of the sizes,  *)
(* and a use counter per slot that decays while the slot is not looked up. *)
(* A thread runs its handlers and ts_cache_update one after the other, so  *)
(* a lookup, the fetch that follows a miss, and the insertion are one step.*)
(***************************************************************************)
EXTENDS Integers, SequencesExt

CONSTANTS
  Keys,              (* a set of numbers *)
  SizeOf,            (* per key: the size of its image *)
  Buffers,           (* the memory blocks image_db_fetch may allocate *)
  MaxMem,            (* max_mem *)
  InitialCapacity,   (* k_default_capacity, 256 *)
  DecayTime,         (* lfu_decay_time *)
  LfuInit,           (* lfu_init, 5 *)
  MaxFreq,           (* the 255 of increment_counter *)
  Modulus,           (* 2^32: time_seconds is unsigned *)
  ClockSteps,        (* by how much the clock changes between two updates *)
  MaxSetBacks        (* bound: how often it is set back *)

ASSUME CacheAssumption ==
  /\ Keys \subseteq Nat
  /\ SizeOf \in [Keys -> Nat \ {0}]
  /\ MaxMem \in Nat
  /\ InitialCapacity \in Nat \ {0}
  /\ DecayTime \in Nat \ {0}
  /\ MaxFreq \in Nat /\ LfuInit \in 1..MaxFreq
  /\ Modulus \in Nat /\ Modulus > DecayTime
  /\ ClockSteps \subseteq Int
  /\ MaxSetBacks \in Nat
  /\ "miss" \notin Buffers

VARIABLES
  slots, used_mem, capacity,
  time_seconds,
  allocated,   (* the buffers that have not been freed *)
  answer,      (* the key of the last lookup and its buffer, or "miss" *)
  setBacks,
  idle         (* per key: seconds since its last use, at most DecayTime,
                  which it also becomes when the clock is set back *)

cacheVars == <<slots, used_mem, capacity, allocated>>
vars == <<cacheVars, time_seconds, answer, setBacks, idle>>

Slots == [key : Keys, user : Buffers, size : Nat,
          last_access : 0..Modulus - 1, freq : 1..MaxFreq]

(* Of all slots 0 < freq: an update leaves none behind that has decayed.   *)
TypeOK ==
  /\ slots \in Seq(Slots)
  /\ used_mem \in Nat
  /\ capacity \in Nat \ {0} /\ Len(slots) <= capacity
  /\ time_seconds \in 0..Modulus - 1
  /\ allocated \subseteq Buffers
  /\ answer = <<>> \/ answer \in Keys \X (Buffers \cup {"miss"})
  /\ setBacks \in 0..MaxSetBacks
  /\ idle \in [Keys -> 0..DecayTime]

Init ==
  /\ slots = <<>> /\ used_mem = 0
  /\ capacity = InitialCapacity
  /\ time_seconds = 0
  /\ allocated = {}
  /\ answer = <<>>
  /\ setBacks = 0
  /\ idle = [k \in Keys |-> 0]

-----------------------------------------------------------------------------
(* A range <<begin, end>> stands for the indices begin..end - 1 of the     *)
(* code, and Middle is a position in 1..Len(s).                            *)
Ranges(s) == (0..Len(s)) \X (0..Len(s))
Middle(r) == (r[1] + r[2]) \div 2 + 1
Lower(r)  == <<r[1], Middle(r) - 1>>
Upper(r)  == <<Middle(r), r[2]>>

(* binary_search: the position of key, 0 if it is not there. *)
BinarySearch(s, key) ==
  LET in[r \in Ranges(s)] ==
        IF r[1] >= r[2] THEN 0
        ELSE IF s[Middle(r)].key < key THEN in[Upper(r)]
        ELSE IF s[Middle(r)].key > key THEN in[Lower(r)]
        ELSE Middle(r)
  IN in[<<0, Len(s)>>]

(* Mutant: the search ends before the last slot. *)
InsertionPoint_Early(s, key) ==
  LET in[r \in Ranges(s)] ==
        IF r[1] >= r[2] THEN r[2]
        ELSE IF s[Middle(r)].key < key THEN in[Upper(r)] ELSE in[Lower(r)]
  IN in[<<0, IF Len(s) > 0 THEN Len(s) - 1 ELSE 0>>]

(* insertion_point: how many slots come before key. *)
InsertionPoint(s, key) ==
  LET in[r \in Ranges(s)] ==
        IF r[1] >= r[2] THEN r[2]
        ELSE IF s[Middle(r)].key < key THEN in[Upper(r)] ELSE in[Lower(r)]
  IN in[<<0, Len(s)>>]

-----------------------------------------------------------------------------
(* Mutant: the access time moves on although no period has passed. *)
Decayed_Touches(slot, now) ==
  LET age     == (now - slot.last_access) % Modulus
      periods == age \div DecayTime
  IN  [slot EXCEPT !.freq = IF periods > @ THEN 0 ELSE @ - periods,
                   !.last_access = now]

(* decay *)
Decayed(slot, now) ==
  LET age     == (now - slot.last_access) % Modulus
      periods == age \div DecayTime
      freq    == IF periods > slot.freq THEN 0 ELSE slot.freq - periods
  IN  [slot EXCEPT !.freq = freq,
                   !.last_access = IF freq # slot.freq THEN now ELSE @]

Aged(now)  == [i \in DOMAIN slots |-> Decayed(slots[i], now)]
Expired(s) == {i \in DOMAIN s : s[i].freq = 0}
Users(s)   == {s[i].user : i \in DOMAIN s}

(* The slots that stay, in their order: the loop of ts_cache_update. *)
Kept(s) ==
  LET kept[n \in 0..Len(s)] ==
        IF n = 0 THEN <<>>
        ELSE IF n \in Expired(s) THEN kept[n - 1] ELSE Append(kept[n - 1], s[n])
  IN kept[Len(s)]

(* The sum of the sizes of the slots at the positions I. *)
Memory(s, I) ==
  LET sum[n \in 0..Len(s)] ==
        IF n = 0 THEN 0
        ELSE IF n \in I THEN sum[n - 1] + s[n].size ELSE sum[n - 1]
  IN sum[Len(s)]

(* Mutant: the memory of the slots that expire stays in use. *)
Update_KeepsMem(d) ==
  LET now == (time_seconds + d) % Modulus IN
  /\ d < 0 => setBacks < MaxSetBacks
  /\ setBacks' = IF d < 0 THEN setBacks + 1 ELSE setBacks
  /\ time_seconds' = now
  /\ slots' = Kept(Aged(now))
  /\ allocated' = allocated \ {slots[i].user : i \in Expired(Aged(now))}
  /\ idle' = [k \in Keys |-> IF d < 0 \/ idle[k] + d >= DecayTime
                             THEN DecayTime ELSE idle[k] + d]
  /\ UNCHANGED <<capacity, answer, used_mem>>

(* ts_cache_update: what has decayed is freed and closed up. *)
Update(d) ==
  LET now == (time_seconds + d) % Modulus IN
  /\ d < 0 => setBacks < MaxSetBacks
  /\ setBacks' = IF d < 0 THEN setBacks + 1 ELSE setBacks
  /\ time_seconds' = now
  /\ slots' = Kept(Aged(now))
  /\ used_mem' = used_mem - Memory(slots, Expired(Aged(now)))
  /\ allocated' = allocated \ {slots[i].user : i \in Expired(Aged(now))}
  /\ idle' = [k \in Keys |-> IF d < 0 \/ idle[k] + d >= DecayTime
                             THEN DecayTime ELSE idle[k] + d]
  /\ UNCHANGED <<capacity, answer>>

(* ts_cache_get: the counter grows by chance.  The last outcome of the     *)
(* random number does not grow even the smallest counter.                  *)
Incremented(freq) == IF freq = MaxFreq THEN {freq} ELSE {freq, freq + 1}

(* Mutant: a hit does not count as an access. *)
Hit_NotTouched(k) ==
  LET i == BinarySearch(slots, k) IN
  /\ i # 0
  /\ \E f \in Incremented(slots[i].freq) : slots' = [slots EXCEPT ![i].freq = f]
  /\ answer' = <<k, slots[i].user>>
  /\ idle' = [idle EXCEPT ![k] = 0]
  /\ UNCHANGED <<used_mem, capacity, time_seconds, setBacks, allocated>>

Hit(k) ==
  LET i == BinarySearch(slots, k) IN
  /\ i # 0
  /\ \E f \in Incremented(slots[i].freq) :
       slots' = [slots EXCEPT ![i].freq = f, ![i].last_access = time_seconds]
  /\ answer' = <<k, slots[i].user>>
  /\ idle' = [idle EXCEPT ![k] = 0]
  /\ UNCHANGED <<used_mem, capacity, time_seconds, setBacks, allocated>>

(* Mutant: the slots are doubled one insertion too late. *)
Insert_GrowsLate(k, b) ==
  LET slot == [key |-> k, user |-> b, size |-> SizeOf[k],
               last_access |-> time_seconds, freq |-> LfuInit] IN
  /\ slots' = InsertAt(slots, InsertionPoint(slots, k) + 1, slot)
  /\ used_mem' = used_mem + SizeOf[k]
  /\ capacity' = IF Len(slots) > capacity THEN 2 * capacity ELSE capacity

(* ts_cache_set, which makes room by doubling the slots. *)
Insert(k, b) ==
  LET slot == [key |-> k, user |-> b, size |-> SizeOf[k],
               last_access |-> time_seconds, freq |-> LfuInit] IN
  /\ slots' = InsertAt(slots, InsertionPoint(slots, k) + 1, slot)
  /\ used_mem' = used_mem + SizeOf[k]
  /\ capacity' = IF Len(slots) = capacity THEN 2 * capacity ELSE capacity

(* Mutant: the fetched buffer is not freed when the cache refuses it. *)
Refused_Leaks(b) ==
  /\ allocated' = allocated \cup {b}
  /\ UNCHANGED <<slots, used_mem, capacity>>

Refused(b) == UNCHANGED cacheVars

(* serve_tile after a miss: image_db_fetch allocates a buffer, the cache   *)
(* takes it or it is freed.                                                *)
Miss(k) ==
  /\ BinarySearch(slots, k) = 0
  /\ \E b \in Buffers \ allocated :
       \/ /\ used_mem + SizeOf[k] <= MaxMem
          /\ Insert(k, b)
          /\ allocated' = allocated \cup {b}
       \/ /\ used_mem + SizeOf[k] > MaxMem
          /\ Refused(b)
  /\ answer' = <<k, "miss">>
  /\ idle' = [idle EXCEPT ![k] = 0]
  /\ UNCHANGED <<time_seconds, setBacks>>

Next ==
  \/ \E d \in ClockSteps : Update(d)
  \/ \E k \in Keys : Hit(k) \/ Miss(k)

Spec == Init /\ [][Next]_vars

(* run_loop updates the cache at least every 100 ms and the clock goes on. *)
FairSpec == Spec /\ WF_vars(\E d \in ClockSteps : d > 0 /\ Update(d))

-----------------------------------------------------------------------------
Cached(k) == \E i \in DOMAIN slots : slots[i].key = k

(* used_mem is the memory of the slots, and within the limit. *)
MemAccounted == used_mem = Memory(slots, DOMAIN slots) /\ used_mem <= MaxMem

(* Every buffer of a slot is allocated, no two slots share one, and no     *)
(* buffer is allocated that no slot holds: freed once, never leaked.       *)
BuffersOwned ==
  /\ allocated = Users(slots)
  /\ \A i, j \in DOMAIN slots : i # j => slots[i].user # slots[j].user

(* A slot is dropped only when its key was not used for a whole period, or *)
(* the clock was set back since.                                           *)
ExpiresOnlyIdle ==
  [][\A k \in Keys : Cached(k) /\ ~Cached(k)' => idle'[k] = DecayTime]_vars

(* A key nobody asks for any more does not stay cached, although decay     *)
(* leaves the access time of a slot alone until a whole period has passed. *)
IdleExpires ==
  \A k \in Keys : []<>~Cached(k) \/ []<><<Hit(k)>>_vars

(* The slots implement the map of CacheMap.tla. *)
Map == INSTANCE CacheMap WITH
  contents <- {<<slots[i].key, slots[i].user>> : i \in DOMAIN slots}
ImplementsMap == Map!Spec
=============================================================================
