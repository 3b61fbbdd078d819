------------------------ MODULE TestingServiceProofs ------------------------
(***************************************************************************)
(* What TLAPS proves of TestingService, for any number of tasks, of        *)
(* before-run implementations and of calls of Initialize.                  *)
(*                                                                         *)
(* All properties rest on the two flags: OneStart and OneDisposal say that *)
(* one task at most is ever in StartAsync, and one in DisposeAsync.  What  *)
(* that task has found and made is followed from await to await by         *)
(* StartProgress, and what is left to dispose of by Remains.               *)
(***************************************************************************)
EXTENDS TestingService, SequenceTheorems, TLAPS

(* Before StartAsync nothing has been executed, started or made.           *)
OneStart ==
    /\ \A t, q \in Task : pc[t] \in Starting /\ pc[q] \in Starting => t = q
    /\ ~started => /\ \A t \in Task : pc[t] \notin Starting
                   /\ \A n \in Services : executed[n] = <<>> /\ app[n] # "started"
                   /\ client = 0

(* A disposal is begun exactly while a task is in DisposeAsync; nobody is  *)
(* in StartAsync then, unless they have raced.                             *)
OneDisposal ==
    /\ \A t, q \in Task : pc[t] \in Disposing /\ pc[q] \in Disposing => t = q
    /\ \A t \in Task : pc[t] \in Disposing => disposal = "begun"
    /\ disposal = "begun" => \E t \in Task : pc[t] \in Disposing
    /\ ~raced => \A t, q \in Task : pc[t] \notin Starting \/ pc[q] \notin Disposing

(* What stands in the fields while and after nobody is in the way.         *)
FieldsAgree ==
    /\ server # 0 => app[server] # "null" /\ (server = service \/ server \in abandoned)
    /\ \A t \in Task : pc[t] = "service" => server = 0
    /\ \A n \in made + 1..MaxServices : app[n] = "null" /\ executed[n] = <<>>
    /\ made = 0 => service = 0
    /\ disposal = "none" => \A n \in 1..made : n = service \/ n \in abandoned

(* The service of a start is the one in the field, unless that is gone;    *)
(* its before-run implementations have been executed so far; and nothing   *)
(* is started before.                                                      *)
StartProgress ==
    \A t \in Task :
        /\ pc[t] \in {"beforeRun", "hosting"} => service \in {0, host[t]}
        /\ pc[t] \in {"beforeRun", "host", "hosting"} => \A n \in Services : app[n] # "started"
        /\ pc[t] = "beforeRun" => executed[host[t]] = SubSeq(BeforeRun, 1, at[t])
        /\ pc[t] = "host" /\ service # 0 => executed[service] = BeforeRun
        /\ pc[t] = "hosting" => executed[host[t]] = BeforeRun
        /\ pc[t] = "hosting" /\ disposal = "none" => service # 0
        /\ pc[t] = "client" /\ disposal = "none" /\ server # 0 =>
              app[server] = "started" \/ server \in abandoned

(* ClientIsServed, also while tasks are in a call.                         *)
ClientServed ==
    client # 0 /\ disposal = "none" => app[client] = "started" \/ client \in abandoned

(* What a disposal that is under way or over leaves, unless it was raced.  *)
Remains ==
    ~raced =>
        /\ disposal = "begun" =>
              /\ client = 0
              /\ \A n \in 1..made : n = service \/ n \in abandoned
        /\ disposal = "returned" =>
              /\ service = 0 \/ service \in abandoned
              /\ \A t \in Task : pc[t] \in Starting => host[t] = 0 \/ host[t] \in abandoned

(* The inductive invariant.                                                *)
IInv == /\ TypeOK /\ OneStart /\ OneDisposal /\ FieldsAgree /\ StartProgress
        /\ ClientServed /\ Remains
        /\ ServesAfterBeforeRun /\ NothingIsLeft
----------------------------------------------------------------------------
(* One more element makes the next prefix.                                 *)
LEMMA Prefixes ==
    /\ SubSeq(BeforeRun, 1, 0) = <<>>
    /\ SubSeq(BeforeRun, 1, Len(BeforeRun)) = BeforeRun
    /\ Len(BeforeRun) \in Nat
    /\ \A k \in 0..Len(BeforeRun) - 1 :
          /\ BeforeRun[k + 1] \in {BeforeRun[i] : i \in DOMAIN BeforeRun}
          /\ Append(SubSeq(BeforeRun, 1, k), BeforeRun[k + 1]) = SubSeq(BeforeRun, 1, k + 1)
<1> USE TestingAssumption
<1>1. SubSeq(BeforeRun, 1, 0) = <<>>  OBVIOUS
<1>2. SubSeq(BeforeRun, 1, Len(BeforeRun)) = BeforeRun  OBVIOUS
<1>3. Len(BeforeRun) \in Nat  OBVIOUS
<1>4. ASSUME NEW k \in 0..Len(BeforeRun) - 1
      PROVE  /\ BeforeRun[k + 1] \in {BeforeRun[i] : i \in DOMAIN BeforeRun}
             /\ Append(SubSeq(BeforeRun, 1, k), BeforeRun[k + 1]) = SubSeq(BeforeRun, 1, k + 1)
  <2>1. k + 1 \in DOMAIN BeforeRun  OBVIOUS
  <2>2. Append(SubSeq(BeforeRun, 1, k), BeforeRun[k + 1]) = SubSeq(BeforeRun, 1, k + 1)
    BY <2>1
  <2> QED  BY <2>1, <2>2
<1> QED  BY <1>1, <1>2, <1>3, <1>4

(* Nothing has been made.                                                  *)
LEMMA InitInv == Init => IInv
<1> SUFFICES ASSUME Init PROVE IInv  OBVIOUS
<1> USE TestingAssumption DEF Init
<1>1. TypeOK
  <2>1. <<>> \in Seq({BeforeRun[i] : i \in DOMAIN BeforeRun})  OBVIOUS
  <2>2. executed \in [Services -> Seq({BeforeRun[i] : i \in DOMAIN BeforeRun})]  BY <2>1
  <2>3. app \in [Services -> App] /\ pc \in [Task -> PC]  BY DEF App, PC
  <2>4. host \in [Task -> 0..made] /\ at \in [Task -> 0..Len(BeforeRun)]  OBVIOUS
  <2>5. made \in 0..MaxServices /\ service \in 0..made /\ server \in 0..made /\ client \in 0..made
    OBVIOUS
  <2>6. \A t \in Task : host[t] # 0 <=> pc[t] \in {"beforeRun", "hosting", "stopping"}  OBVIOUS
  <2>7. disposal \in {"none", "begun", "returned", "threw"} /\ abandoned \subseteq 1..made  OBVIOUS
  <2>8. started \in BOOLEAN /\ raced \in BOOLEAN  OBVIOUS
  <2> QED  BY <2>2, <2>3, <2>4, <2>5, <2>6, <2>7, <2>8 DEF TypeOK
<1>2. OneStart /\ OneDisposal  BY DEF OneStart, OneDisposal, Starting, Disposing
<1>3. FieldsAgree /\ StartProgress  BY DEF FieldsAgree, StartProgress, Services
<1>4. ClientServed /\ Remains /\ ServesAfterBeforeRun /\ NothingIsLeft
  BY DEF ClientServed, Remains, ServesAfterBeforeRun, NothingIsLeft
<1> QED  BY <1>1, <1>2, <1>3, <1>4 DEF IInv

(* A new service takes the place of the one before.                        *)
LEMMA InitializeInv == IInv /\ Initialize => IInv'
<1> SUFFICES ASSUME IInv, Initialize PROVE IInv'
  OBVIOUS
<1> USE TestingAssumption
   DEF IInv, TypeOK, Initialize, Goto, Let, HasApp, fields, Services, PC, App, Starting, Disposing
<1>1. TypeOK'
  <2>1. made' \in 0..MaxServices /\ made <= made'  OBVIOUS
  <2>2. service' \in 0..made' /\ server' \in 0..made' /\ client' \in 0..made'  BY <2>1
  <2>3. app' \in [Services -> App]  BY <2>1
  <2>4. executed' \in [Services -> Seq({BeforeRun[i] : i \in DOMAIN BeforeRun})]  OBVIOUS
  <2>5. pc' \in [Task -> PC]  OBVIOUS
  <2>6. host' \in [Task -> 0..made']  BY <2>1
  <2>7. \A q \in Task : host'[q] # 0 <=> pc'[q] \in {"beforeRun", "hosting", "stopping"}  OBVIOUS
  <2>8. at' \in [Task -> 0..Len(BeforeRun)]  OBVIOUS
  <2>9. /\ started' \in BOOLEAN /\ disposal' \in {"none", "begun", "returned", "threw"}
        /\ raced' \in BOOLEAN /\ abandoned' \subseteq 1..made'
    BY <2>1
  <2> QED  BY <2>1, <2>2, <2>3, <2>4, <2>5, <2>6, <2>7, <2>8, <2>9
<1>2. OneStart'  BY DEF OneStart
<1>3. OneDisposal'  BY DEF OneDisposal
<1>4. FieldsAgree'  BY DEF FieldsAgree, OneDisposal
<1>5. StartProgress'  BY DEF StartProgress, OneStart, OneDisposal, FieldsAgree
<1>6. ClientServed'  BY DEF ClientServed, StartProgress, OneDisposal, OneStart
<1>7. Remains'  BY DEF Remains, OneDisposal, FieldsAgree
<1>8. ServesAfterBeforeRun'  BY DEF ServesAfterBeforeRun, StartProgress, FieldsAgree
<1>9. NothingIsLeft'  BY DEF NothingIsLeft, Remains, OneDisposal, FieldsAgree
<1> QED  BY <1>1, <1>2, <1>3, <1>4, <1>5, <1>6, <1>7, <1>8, <1>9

(* At most one task is let in.                                             *)
LEMMA StartAsyncInv == \A t \in Task : IInv /\ StartAsync(t) => IInv'
<1> SUFFICES ASSUME NEW t \in Task, IInv, StartAsync(t) PROVE IInv'
  OBVIOUS
<1> USE TestingAssumption
   DEF IInv, TypeOK, StartAsync, Goto, Let, HasApp, fields, Services, PC, App, Starting, Disposing
<1>1. TypeOK'
  <2>1. made' \in 0..MaxServices /\ made <= made'  OBVIOUS
  <2>2. service' \in 0..made' /\ server' \in 0..made' /\ client' \in 0..made'  BY <2>1
  <2>3. app' \in [Services -> App]  BY <2>1
  <2>4. executed' \in [Services -> Seq({BeforeRun[i] : i \in DOMAIN BeforeRun})]  OBVIOUS
  <2>5. pc' \in [Task -> PC]  OBVIOUS
  <2>6. host' \in [Task -> 0..made']  BY <2>1
  <2>7. \A q \in Task : host'[q] # 0 <=> pc'[q] \in {"beforeRun", "hosting", "stopping"}  OBVIOUS
  <2>8. at' \in [Task -> 0..Len(BeforeRun)]  OBVIOUS
  <2>9. /\ started' \in BOOLEAN /\ disposal' \in {"none", "begun", "returned", "threw"}
        /\ raced' \in BOOLEAN /\ abandoned' \subseteq 1..made'
    BY <2>1
  <2> QED  BY <2>1, <2>2, <2>3, <2>4, <2>5, <2>6, <2>7, <2>8, <2>9
<1>2. OneStart'  BY DEF OneStart
<1>3. OneDisposal'
  <2>1. \A q \in Task : pc[q] \in Disposing => pc'[q] \in Disposing  OBVIOUS
  <2>2. disposal' = "begun" => \E q \in Task : pc'[q] \in Disposing  BY <2>1 DEF OneDisposal
  <2>3. \A q, r \in Task : pc'[q] \in Disposing /\ pc'[r] \in Disposing => q = r  BY DEF OneDisposal
  <2>4. \A q \in Task : pc'[q] \in Disposing => disposal' = "begun"  BY DEF OneDisposal
  <2>5. ~raced' => \A q, r \in Task : pc'[q] \notin Starting \/ pc'[r] \notin Disposing
    BY DEF OneDisposal
  <2> QED  BY <2>2, <2>3, <2>4, <2>5 DEF OneDisposal
<1>4. FieldsAgree'  BY DEF FieldsAgree, OneDisposal
<1>5. StartProgress'
  <2>1. pc'[t] = "beforeRun" => executed'[host'[t]] = SubSeq(BeforeRun, 1, at'[t])
    <3>1. pc'[t] = "beforeRun" => host'[t] \in Services  OBVIOUS
    <3>2. at'[t] = 0  OBVIOUS
    <3>3. \A n \in Services : executed'[n] = <<>>  BY DEF OneStart
    <3> HIDE DEF StartAsync, TypeOK, Services
    <3> QED  BY <3>1, <3>2, <3>3, Prefixes
  <2>2. \A q \in Task \ {t} : pc'[q] \notin Starting  BY DEF OneStart
  <2>3. pc'[t] = "beforeRun" => service = host'[t]  OBVIOUS
  <2>4. \A n \in Services : app'[n] # "started"  BY DEF OneStart
  <2>5. pc'[t] = "client" /\ disposal = "none" /\ server # 0 => server \in abandoned
    BY DEF FieldsAgree
  <2> QED  BY <2>1, <2>2, <2>3, <2>4, <2>5 DEF StartProgress
<1>6. ClientServed'  BY DEF ClientServed, StartProgress, OneDisposal, OneStart
<1>7. Remains'  BY DEF Remains, OneDisposal, FieldsAgree
<1>8. ServesAfterBeforeRun'  BY DEF ServesAfterBeforeRun, StartProgress, FieldsAgree
<1>9. NothingIsLeft'  BY DEF NothingIsLeft, Remains, OneDisposal, FieldsAgree
<1> QED  BY <1>1, <1>2, <1>3, <1>4, <1>5, <1>6, <1>7, <1>8, <1>9

(* The implementation that is due is executed.                             *)
LEMMA ExecuteBeforeRunInv == \A t \in Task : IInv /\ ExecuteBeforeRun(t) => IInv'
<1> SUFFICES ASSUME NEW t \in Task, IInv, ExecuteBeforeRun(t) PROVE IInv'
  OBVIOUS
<1> USE TestingAssumption
   DEF IInv, TypeOK, ExecuteBeforeRun, StartThrows, Goto, Let, HasApp, fields, Services, PC, App,
       Starting, Disposing
<1>1. TypeOK'
  <2>1. made' \in 0..MaxServices /\ made <= made'  OBVIOUS
  <2>2. service' \in 0..made' /\ server' \in 0..made' /\ client' \in 0..made'  BY <2>1
  <2>3. app' \in [Services -> App]  BY <2>1
  <2>4. executed' \in [Services -> Seq({BeforeRun[i] : i \in DOMAIN BeforeRun})]
    <3>1. BeforeRun[at[t] + 1] \in {BeforeRun[i] : i \in DOMAIN BeforeRun}  BY Prefixes
    <3>2. \A p \in Seq({BeforeRun[i] : i \in DOMAIN BeforeRun}) :
             Append(p, BeforeRun[at[t] + 1]) \in Seq({BeforeRun[i] : i \in DOMAIN BeforeRun})
      BY <3>1
    <3>3. host[t] \in Services  OBVIOUS
    <3>4. CASE executed' = [executed EXCEPT ![host[t]] = Append(@, BeforeRun[at[t] + 1])]
      <4>1. executed[host[t]] \in Seq({BeforeRun[i] : i \in DOMAIN BeforeRun})  BY <3>3
      <4>2. Append(executed[host[t]], BeforeRun[at[t] + 1]) \in
              Seq({BeforeRun[i] : i \in DOMAIN BeforeRun})
        BY <3>2, <4>1
      <4> QED  BY <3>4, <4>2, Zenon
    <3> QED  BY <3>4
  <2>5. pc' \in [Task -> PC]  OBVIOUS
  <2>6. host' \in [Task -> 0..made']  BY <2>1
  <2>7. \A q \in Task : host'[q] # 0 <=> pc'[q] \in {"beforeRun", "hosting", "stopping"}  OBVIOUS
  <2>8. at' \in [Task -> 0..Len(BeforeRun)]
    <3>1. at[t] + 1 \in 0..Len(BeforeRun)  BY Prefixes
    <3> QED  BY <3>1
  <2>9. /\ started' \in BOOLEAN /\ disposal' \in {"none", "begun", "returned", "threw"}
        /\ raced' \in BOOLEAN /\ abandoned' \subseteq 1..made'
    BY <2>1
  <2> QED  BY <2>1, <2>2, <2>3, <2>4, <2>5, <2>6, <2>7, <2>8, <2>9
<1>2. OneStart'  BY DEF OneStart
<1>3. OneDisposal'  BY DEF OneDisposal
<1>4. FieldsAgree'  BY DEF FieldsAgree, OneDisposal
<1>5. StartProgress'
  <2>1. CASE StartThrows(t) /\ UNCHANGED <<executed, at>>
    BY <2>1 DEF StartProgress, OneStart, OneDisposal, FieldsAgree
  <2>2. CASE /\ executed' = [executed EXCEPT ![host[t]] = Append(@, BeforeRun[at[t] + 1])]
             /\ at' = [at EXCEPT ![t] = @ + 1]
             /\ UNCHANGED <<pc, host>>
    <3>1. executed'[host[t]] = SubSeq(BeforeRun, 1, at'[t])
      BY <2>2, Prefixes DEF StartProgress
    <3>2. \A q \in Task \ {t} : pc'[q] \notin Starting  BY <2>2 DEF OneStart
    <3> QED  BY <2>2, <3>1, <3>2 DEF StartProgress
  <2> QED  BY <2>1, <2>2
<1>6. ClientServed'  BY DEF ClientServed, StartProgress, OneDisposal, OneStart
<1>7. Remains'
  <2>1. \A q \in Task : pc'[q] \in Starting =>
           pc[q] \in Starting /\ host'[q] \in {0, host[q], service}
    OBVIOUS
  <2> QED  BY <2>1 DEF Remains, OneDisposal, FieldsAgree
<1>8. ServesAfterBeforeRun'  BY DEF ServesAfterBeforeRun, StartProgress, FieldsAgree
<1>9. NothingIsLeft'  BY DEF NothingIsLeft, Remains, OneDisposal, FieldsAgree
<1> QED  BY <1>1, <1>2, <1>3, <1>4, <1>5, <1>6, <1>7, <1>8, <1>9

(* All of them have been executed.                                         *)
LEMMA BeforeRunEndsInv == \A t \in Task : IInv /\ BeforeRunEnds(t) => IInv'
<1> SUFFICES ASSUME NEW t \in Task, IInv, BeforeRunEnds(t) PROVE IInv'
  OBVIOUS
<1> USE TestingAssumption
   DEF IInv, TypeOK, BeforeRunEnds, Goto, Let, HasApp, fields, Services, PC, App, Starting,
       Disposing
<1>1. TypeOK'
  <2>1. made' \in 0..MaxServices /\ made <= made'  OBVIOUS
  <2>2. service' \in 0..made' /\ server' \in 0..made' /\ client' \in 0..made'  BY <2>1
  <2>3. app' \in [Services -> App]  BY <2>1
  <2>4. executed' \in [Services -> Seq({BeforeRun[i] : i \in DOMAIN BeforeRun})]  OBVIOUS
  <2>5. pc' \in [Task -> PC]  OBVIOUS
  <2>6. host' \in [Task -> 0..made']  BY <2>1
  <2>7. \A q \in Task : host'[q] # 0 <=> pc'[q] \in {"beforeRun", "hosting", "stopping"}  OBVIOUS
  <2>8. at' \in [Task -> 0..Len(BeforeRun)]  OBVIOUS
  <2>9. /\ started' \in BOOLEAN /\ disposal' \in {"none", "begun", "returned", "threw"}
        /\ raced' \in BOOLEAN /\ abandoned' \subseteq 1..made'
    BY <2>1
  <2> QED  BY <2>1, <2>2, <2>3, <2>4, <2>5, <2>6, <2>7, <2>8, <2>9
<1>2. OneStart'  BY DEF OneStart
<1>3. OneDisposal'  BY DEF OneDisposal
<1>4. FieldsAgree'  BY DEF FieldsAgree, OneDisposal
<1>5. StartProgress'  BY DEF StartProgress, OneStart, OneDisposal, FieldsAgree
<1>6. ClientServed'  BY DEF ClientServed, StartProgress, OneDisposal, OneStart
<1>7. Remains'  BY DEF Remains, OneDisposal, FieldsAgree
<1>8. ServesAfterBeforeRun'  BY DEF ServesAfterBeforeRun, StartProgress, FieldsAgree
<1>9. NothingIsLeft'  BY DEF NothingIsLeft, Remains, OneDisposal, FieldsAgree
<1> QED  BY <1>1, <1>2, <1>3, <1>4, <1>5, <1>6, <1>7, <1>8, <1>9

(* The service in the field is the one that was prepared, or is gone.      *)
LEMMA StartHostInv == \A t \in Task : IInv /\ StartHost(t) => IInv'
<1> SUFFICES ASSUME NEW t \in Task, IInv, StartHost(t) PROVE IInv'
  OBVIOUS
<1> USE TestingAssumption
   DEF IInv, TypeOK, StartHost, StartThrows, Goto, Let, HasApp, fields, Services, PC, App,
       Starting, Disposing
<1>1. TypeOK'  OBVIOUS
<1>2. OneStart'  BY DEF OneStart
<1>3. OneDisposal'
  <2>1. \A q \in Task : pc[q] \in Disposing => pc'[q] \in Disposing  OBVIOUS
  <2>2. disposal' = "begun" => \E q \in Task : pc'[q] \in Disposing  BY <2>1 DEF OneDisposal
  <2>3. \A q, r \in Task : pc'[q] \in Disposing /\ pc'[r] \in Disposing => q = r  BY DEF OneDisposal
  <2>4. \A q \in Task : pc'[q] \in Disposing => disposal' = "begun"  BY DEF OneDisposal
  <2>5. ~raced' => \A q, r \in Task : pc'[q] \notin Starting \/ pc'[r] \notin Disposing
    BY DEF OneDisposal
  <2> QED  BY <2>2, <2>3, <2>4, <2>5 DEF OneDisposal
<1>4. FieldsAgree'  BY DEF FieldsAgree, OneDisposal
<1>5. StartProgress'  BY DEF StartProgress, OneStart, OneDisposal, FieldsAgree
<1>6. ClientServed'  BY DEF ClientServed, StartProgress, OneDisposal, OneStart
<1>7. Remains'
  <2>1. \A q \in Task : pc'[q] \in Starting =>
           pc[q] \in Starting /\ host'[q] \in {0, host[q], service}
    OBVIOUS
  <2> QED  BY <2>1 DEF Remains, OneDisposal, FieldsAgree
<1>8. ServesAfterBeforeRun'  BY DEF ServesAfterBeforeRun, StartProgress, FieldsAgree
<1>9. NothingIsLeft'  BY DEF NothingIsLeft, Remains, OneDisposal, FieldsAgree
<1> QED  BY <1>1, <1>2, <1>3, <1>4, <1>5, <1>6, <1>7, <1>8, <1>9

(* The service has what it needs to serve.                                 *)
LEMMA HostStartsInv == \A t \in Task : IInv /\ HostStarts(t) => IInv'
<1> SUFFICES ASSUME NEW t \in Task, IInv, HostStarts(t) PROVE IInv'
  OBVIOUS
<1> USE TestingAssumption
   DEF IInv, TypeOK, HostStarts, StartThrows, Goto, Let, HasApp, fields, Services, PC, App,
       Starting, Disposing
<1>1. TypeOK'
  <2>1. made' \in 0..MaxServices /\ made <= made'  OBVIOUS
  <2>2. service' \in 0..made' /\ server' \in 0..made' /\ client' \in 0..made'  BY <2>1
  <2>3. app' \in [Services -> App]  BY <2>1
  <2>4. executed' \in [Services -> Seq({BeforeRun[i] : i \in DOMAIN BeforeRun})]  OBVIOUS
  <2>5. pc' \in [Task -> PC]  OBVIOUS
  <2>6. host' \in [Task -> 0..made']  BY <2>1
  <2>7. \A q \in Task : host'[q] # 0 <=> pc'[q] \in {"beforeRun", "hosting", "stopping"}  OBVIOUS
  <2>8. at' \in [Task -> 0..Len(BeforeRun)]  OBVIOUS
  <2>9. /\ started' \in BOOLEAN /\ disposal' \in {"none", "begun", "returned", "threw"}
        /\ raced' \in BOOLEAN /\ abandoned' \subseteq 1..made'
    BY <2>1
  <2> QED  BY <2>1, <2>2, <2>3, <2>4, <2>5, <2>6, <2>7, <2>8, <2>9
<1>2. OneStart'  BY DEF OneStart
<1>3. OneDisposal'
  <2>1. \A q \in Task : pc[q] \in Disposing => pc'[q] \in Disposing  OBVIOUS
  <2>2. disposal' = "begun" => \E q \in Task : pc'[q] \in Disposing  BY <2>1 DEF OneDisposal
  <2>3. \A q, r \in Task : pc'[q] \in Disposing /\ pc'[r] \in Disposing => q = r  BY DEF OneDisposal
  <2>4. \A q \in Task : pc'[q] \in Disposing => disposal' = "begun"  BY DEF OneDisposal
  <2>5. ~raced' => \A q, r \in Task : pc'[q] \notin Starting \/ pc'[r] \notin Disposing
    BY DEF OneDisposal
  <2> QED  BY <2>2, <2>3, <2>4, <2>5 DEF OneDisposal
<1>4. FieldsAgree'  BY DEF FieldsAgree, OneDisposal
<1>5. StartProgress'  BY DEF StartProgress, OneStart, OneDisposal, FieldsAgree
<1>6. ClientServed'  BY DEF ClientServed, StartProgress, OneDisposal, OneStart
<1>7. Remains'
  <2>1. \A q \in Task : pc'[q] \in Starting =>
           pc[q] \in Starting /\ host'[q] \in {0, host[q], service}
    OBVIOUS
  <2> QED  BY <2>1 DEF Remains, OneDisposal, FieldsAgree
<1>8. ServesAfterBeforeRun'  BY DEF ServesAfterBeforeRun, StartProgress, FieldsAgree
<1>9. NothingIsLeft'  BY DEF NothingIsLeft, Remains, OneDisposal, FieldsAgree
<1> QED  BY <1>1, <1>2, <1>3, <1>4, <1>5, <1>6, <1>7, <1>8, <1>9

(* The client talks to what was started.                                   *)
LEMMA CreateClientInv == \A t \in Task : IInv /\ CreateClient(t) => IInv'
<1> SUFFICES ASSUME NEW t \in Task, IInv, CreateClient(t) PROVE IInv'
  OBVIOUS
<1> USE TestingAssumption
   DEF IInv, TypeOK, CreateClient, Goto, Let, HasApp, fields, Services, PC, App, Starting, Disposing
<1>1. TypeOK'  OBVIOUS
<1>2. OneStart'  BY DEF OneStart
<1>3. OneDisposal'  BY DEF OneDisposal
<1>4. FieldsAgree'  BY DEF FieldsAgree, OneDisposal
<1>5. StartProgress'  BY DEF StartProgress, OneStart, OneDisposal, FieldsAgree
<1>6. ClientServed'  BY DEF ClientServed, StartProgress, OneDisposal, OneStart
<1>7. Remains'  BY DEF Remains, OneDisposal, FieldsAgree
<1>8. ServesAfterBeforeRun'  BY DEF ServesAfterBeforeRun, StartProgress, FieldsAgree
<1>9. NothingIsLeft'  BY DEF NothingIsLeft, Remains, OneDisposal, FieldsAgree
<1> QED  BY <1>1, <1>2, <1>3, <1>4, <1>5, <1>6, <1>7, <1>8, <1>9

(* At most one disposal begins.                                            *)
LEMMA DisposeAsyncInv == \A t \in Task : IInv /\ DisposeAsync(t) => IInv'
<1> SUFFICES ASSUME NEW t \in Task, IInv, DisposeAsync(t) PROVE IInv'
  OBVIOUS
<1> USE TestingAssumption
   DEF IInv, TypeOK, DisposeAsync, Goto, Let, HasApp, fields, Services, PC, App, Starting, Disposing
<1>1. TypeOK'  OBVIOUS
<1>2. OneStart'  BY DEF OneStart
<1>3. OneDisposal'
  <2>1. \A q \in Task : pc[q] \in Disposing => pc'[q] \in Disposing  OBVIOUS
  <2>2. disposal' = "begun" => \E q \in Task : pc'[q] \in Disposing  BY <2>1 DEF OneDisposal
  <2>3. \A q, r \in Task : pc'[q] \in Disposing /\ pc'[r] \in Disposing => q = r  BY DEF OneDisposal
  <2>4. \A q \in Task : pc'[q] \in Disposing => disposal' = "begun"  BY DEF OneDisposal
  <2>5. ~raced' => \A q, r \in Task : pc'[q] \notin Starting \/ pc'[r] \notin Disposing
    BY DEF OneDisposal
  <2> QED  BY <2>2, <2>3, <2>4, <2>5 DEF OneDisposal
<1>4. FieldsAgree'  BY DEF FieldsAgree, OneDisposal
<1>5. StartProgress'  BY DEF StartProgress, OneStart, OneDisposal, FieldsAgree
<1>6. ClientServed'  BY DEF ClientServed, StartProgress, OneDisposal, OneStart
<1>7. Remains'  BY DEF Remains, OneDisposal, FieldsAgree
<1>8. ServesAfterBeforeRun'  BY DEF ServesAfterBeforeRun, StartProgress, FieldsAgree
<1>9. NothingIsLeft'  BY DEF NothingIsLeft, Remains, OneDisposal, FieldsAgree
<1> QED  BY <1>1, <1>2, <1>3, <1>4, <1>5, <1>6, <1>7, <1>8, <1>9

(* The application is stopped or not.                                      *)
LEMMA StopHostInv == \A t \in Task : IInv /\ StopHost(t) => IInv'
<1> SUFFICES ASSUME NEW t \in Task, IInv, StopHost(t) PROVE IInv'
  OBVIOUS
<1> USE TestingAssumption
   DEF IInv, TypeOK, StopHost, Goto, Let, HasApp, fields, Services, PC, App, Starting, Disposing
<1>1. TypeOK'
  <2>1. made' \in 0..MaxServices /\ made <= made'  OBVIOUS
  <2>2. service' \in 0..made' /\ server' \in 0..made' /\ client' \in 0..made'  BY <2>1
  <2>3. app' \in [Services -> App]  BY <2>1
  <2>4. executed' \in [Services -> Seq({BeforeRun[i] : i \in DOMAIN BeforeRun})]  OBVIOUS
  <2>5. pc' \in [Task -> PC]  OBVIOUS
  <2>6. host' \in [Task -> 0..made']  BY <2>1
  <2>7. \A q \in Task : host'[q] # 0 <=> pc'[q] \in {"beforeRun", "hosting", "stopping"}  OBVIOUS
  <2>8. at' \in [Task -> 0..Len(BeforeRun)]  OBVIOUS
  <2>9. /\ started' \in BOOLEAN /\ disposal' \in {"none", "begun", "returned", "threw"}
        /\ raced' \in BOOLEAN /\ abandoned' \subseteq 1..made'
    BY <2>1
  <2> QED  BY <2>1, <2>2, <2>3, <2>4, <2>5, <2>6, <2>7, <2>8, <2>9
<1>2. OneStart'  BY DEF OneStart
<1>3. OneDisposal'  BY DEF OneDisposal
<1>4. FieldsAgree'  BY DEF FieldsAgree, OneDisposal
<1>5. StartProgress'  BY DEF StartProgress, OneStart, OneDisposal, FieldsAgree
<1>6. ClientServed'  BY DEF ClientServed, StartProgress, OneDisposal, OneStart
<1>7. Remains'  BY DEF Remains, OneDisposal, FieldsAgree
<1>8. ServesAfterBeforeRun'  BY DEF ServesAfterBeforeRun, StartProgress, FieldsAgree
<1>9. NothingIsLeft'  BY DEF NothingIsLeft, Remains, OneDisposal, FieldsAgree
<1> QED  BY <1>1, <1>2, <1>3, <1>4, <1>5, <1>6, <1>7, <1>8, <1>9

(* The server goes first.                                                  *)
LEMMA DisposeServerInv == \A t \in Task : IInv /\ DisposeServer(t) => IInv'
<1> SUFFICES ASSUME NEW t \in Task, IInv, DisposeServer(t) PROVE IInv'
  OBVIOUS
<1> USE TestingAssumption
   DEF IInv, TypeOK, DisposeServer, Goto, Let, HasApp, fields, Services, PC, App, Starting,
       Disposing
<1>1. TypeOK'
  <2>1. made' \in 0..MaxServices /\ made <= made'  OBVIOUS
  <2>2. service' \in 0..made' /\ server' \in 0..made' /\ client' \in 0..made'  BY <2>1
  <2>3. app' \in [Services -> App]  BY <2>1
  <2>4. executed' \in [Services -> Seq({BeforeRun[i] : i \in DOMAIN BeforeRun})]  OBVIOUS
  <2>5. pc' \in [Task -> PC]  OBVIOUS
  <2>6. host' \in [Task -> 0..made']  BY <2>1
  <2>7. \A q \in Task : host'[q] # 0 <=> pc'[q] \in {"beforeRun", "hosting", "stopping"}  OBVIOUS
  <2>8. at' \in [Task -> 0..Len(BeforeRun)]  OBVIOUS
  <2>9. /\ started' \in BOOLEAN /\ disposal' \in {"none", "begun", "returned", "threw"}
        /\ raced' \in BOOLEAN /\ abandoned' \subseteq 1..made'
    BY <2>1
  <2> QED  BY <2>1, <2>2, <2>3, <2>4, <2>5, <2>6, <2>7, <2>8, <2>9
<1>2. OneStart'  BY DEF OneStart
<1>3. OneDisposal'  BY DEF OneDisposal
<1>4. FieldsAgree'  BY DEF FieldsAgree, OneDisposal
<1>5. StartProgress'  BY DEF StartProgress, OneStart, OneDisposal, FieldsAgree
<1>6. ClientServed'  BY DEF ClientServed, StartProgress, OneDisposal, OneStart
<1>7. Remains'  BY DEF Remains, OneDisposal, FieldsAgree
<1>8. ServesAfterBeforeRun'  BY DEF ServesAfterBeforeRun, StartProgress, FieldsAgree
<1>9. NothingIsLeft'  BY DEF NothingIsLeft, Remains, OneDisposal, FieldsAgree
<1> QED  BY <1>1, <1>2, <1>3, <1>4, <1>5, <1>6, <1>7, <1>8, <1>9

(* Nothing else was left.                                                  *)
LEMMA DisposeServiceInv == \A t \in Task : IInv /\ DisposeService(t) => IInv'
<1> SUFFICES ASSUME NEW t \in Task, IInv, DisposeService(t) PROVE IInv'
  OBVIOUS
<1> USE TestingAssumption
   DEF IInv, TypeOK, DisposeService, Goto, Let, HasApp, fields, Services, PC, App, Starting,
       Disposing
<1>1. TypeOK'
  <2>1. made' \in 0..MaxServices /\ made <= made'  OBVIOUS
  <2>2. service' \in 0..made' /\ server' \in 0..made' /\ client' \in 0..made'  BY <2>1
  <2>3. app' \in [Services -> App]  BY <2>1
  <2>4. executed' \in [Services -> Seq({BeforeRun[i] : i \in DOMAIN BeforeRun})]  OBVIOUS
  <2>5. pc' \in [Task -> PC]  OBVIOUS
  <2>6. host' \in [Task -> 0..made']  BY <2>1
  <2>7. \A q \in Task : host'[q] # 0 <=> pc'[q] \in {"beforeRun", "hosting", "stopping"}  OBVIOUS
  <2>8. at' \in [Task -> 0..Len(BeforeRun)]  OBVIOUS
  <2>9. /\ started' \in BOOLEAN /\ disposal' \in {"none", "begun", "returned", "threw"}
        /\ raced' \in BOOLEAN /\ abandoned' \subseteq 1..made'
    BY <2>1
  <2> QED  BY <2>1, <2>2, <2>3, <2>4, <2>5, <2>6, <2>7, <2>8, <2>9
<1>2. OneStart'  BY DEF OneStart
<1>3. OneDisposal'  BY DEF OneDisposal
<1>4. FieldsAgree'  BY DEF FieldsAgree, OneDisposal
<1>5. StartProgress'  BY DEF StartProgress, OneStart, OneDisposal, FieldsAgree
<1>6. ClientServed'  BY DEF ClientServed, StartProgress, OneDisposal, OneStart
<1>7. Remains'  BY DEF Remains, OneDisposal, FieldsAgree
<1>8. ServesAfterBeforeRun'  BY DEF ServesAfterBeforeRun, StartProgress, FieldsAgree
<1>9. NothingIsLeft'  BY DEF NothingIsLeft, Remains, OneDisposal, FieldsAgree
<1> QED  BY <1>1, <1>2, <1>3, <1>4, <1>5, <1>6, <1>7, <1>8, <1>9

(* Every step is one of those above.                                       *)
LEMMA NextInv == IInv /\ [Next]_vars => IInv'
<1> SUFFICES ASSUME IInv, [Next]_vars PROVE IInv'  OBVIOUS
<1>1. CASE Next
  BY <1>1, InitializeInv, StartAsyncInv, ExecuteBeforeRunInv, BeforeRunEndsInv, StartHostInv,
     HostStartsInv, CreateClientInv, DisposeAsyncInv, StopHostInv, DisposeServerInv,
     DisposeServiceInv
     DEF Next, Step
<1>2. CASE UNCHANGED vars
  <2> USE <1>2 DEF vars, fields, IInv
  <2>1. TypeOK' /\ OneStart' /\ OneDisposal'  BY DEF TypeOK, OneStart, OneDisposal
  <2>2. FieldsAgree' /\ StartProgress'  BY DEF FieldsAgree, StartProgress
  <2>3. ClientServed' /\ Remains'  BY DEF ClientServed, Remains
  <2>4. ServesAfterBeforeRun' /\ NothingIsLeft'  BY DEF ServesAfterBeforeRun, NothingIsLeft
  <2> QED  BY <2>1, <2>2, <2>3, <2>4
<1> QED  BY <1>1, <1>2
----------------------------------------------------------------------------
(* The invariant of the specification.                                     *)
LEMMA Invariance == Spec => []IInv
<1> QED  BY InitInv, NextInv, PTL DEF Spec, Safe

(* The fields have their shape for any number of tasks and services.       *)
THEOREM TypeCorrect == Spec => []TypeOK
<1>1. IInv => TypeOK  BY DEF IInv
<1> QED  BY <1>1, Invariance, PTL

(* However many before-run implementations there are, and whatever throws  *)
(* or is called at the same time, a service serves only when all of them   *)
(* have been executed (lines 63-72; SmusdiService lines 225-241).          *)
THEOREM PreparedBeforeServing == Spec => []ServesAfterBeforeRun
<1>1. IInv => ServesAfterBeforeRun  BY DEF IInv
<1> QED  BY <1>1, Invariance, PTL

(* The client of a test talks to an application that runs (lines 68-76).   *)
THEOREM ClientHasService == Spec => []ClientIsServed
<1>1. IInv => ClientIsServed  BY DEF IInv, ClientServed, ClientIsServed
<1> QED  BY <1>1, Invariance, PTL

(* A disposal that returned, and that no start raced, has left nothing of  *)
(* any service that was not replaced (lines 82-110).                       *)
THEOREM DisposalIsComplete == Spec => []NothingIsLeft
<1>1. IInv => NothingIsLeft  BY DEF IInv
<1> QED  BY <1>1, Invariance, PTL
=============================================================================
