-------------------------- MODULE ArgumentsProperties --------------------------
(***************************************************************************)
(* What ArgumentsObjects promises: every property the runs check.          *)
(***************************************************************************)
EXTENDS ArgumentsObjects

Numbers == 0 .. MaxCalls

(* Every variable has its type; an array that holds arguments exists, and only  *)
(* objects that exist are in the pool.                                          *)
TypeOK ==
  /\ calls \in Numbers
  /\ active \in Seq([call : Numbers, object : Objects, array : Arrays])
  /\ arrows \subseteq [call : Numbers, object : Objects]
  /\ objects \in [Objects -> [call : Numbers, array : Arrays \cup {0}, canReturn : BOOLEAN,
                              initialized : BOOLEAN, materialized : BOOLEAN, contents : Numbers]]
  /\ pool \in Seq(Objects) /\ Len(pool) <= PoolSize
  /\ holds \in [Arrays -> Numbers]
  /\ lent \subseteq {a \in Arrays : holds[a] # 0}
  /\ given \subseteq [call : Numbers, object : Objects]
  /\ late \subseteq Objects
  /\ \A o \in InPool : objects[o].call # 0 /\ ~objects[o].canReturn

(* Calls do not share what they have been lent: an object is in the pool once   *)
(* or with one call in progress, an array belongs to one of them and holds its  *)
(* arguments until it ends.                                                     *)
CallsApart ==
  /\ \A i, j \in DOMAIN pool : pool[i] = pool[j] => i = j
  /\ \A i \in DOMAIN active :
       /\ active[i].object \notin InPool
       /\ objects[active[i].object].call = active[i].call
       /\ active[i].array \in lent /\ holds[active[i].array] = active[i].call
       /\ \A j \in DOMAIN active : i # j =>
            active[i].object # active[j].object /\ active[i].array # active[j].array

(* What a script got when it mentioned arguments are the arguments of that      *)
(* call, and stay so: the object is never given to another call.  Excepted are  *)
(* objects an arrow function has mentioned for the first time when their call   *)
(* had ended: they were in the pool or with another call already.               *)
OwnArguments ==
  \A g \in given : g.object \notin late =>
    objects[g.object].contents = g.call /\ g.object \notin InPool
=============================================================================
