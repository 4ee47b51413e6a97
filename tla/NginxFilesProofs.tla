-------------------------- MODULE NginxFilesProofs --------------------------
(***************************************************************************)
(* Proofs about NginxFiles, for any load balancers, objects, watchers and  *)
(* bounds.                                                                 *)
(***************************************************************************)
EXTENDS NginxFiles, TLAPS

\* Where a watcher may be with something in hand.
WatcherInv ==
    \A w \in Watcher :
        /\ w \notin alive => pc[w] = "idle" /\ ~ pending[w]
        /\ pc[w] \notin {"config", "render"} => todo[w] = Nothing
        /\ pc[w] # "delete" => dels[w] = {}
        /\ pc[w] = "render" => todo[w][cur[w]] # Absent
        /\ needReload[w] => pc[w] \in {"config", "render", "delete"}

\* Without faults a change of the files is still to be loaded, or cannot be.
ToLoad ==
    \/ running = files \/ ~ Test(files) \/ hup
    \/ \E w \in Watcher : needReload[w] \/ pc[w] = "reload"

ReloadInv == crashes = 0 /\ faults = 0 => ToLoad

\* A file is where its load balancer has been written.
UsedInv == \A l \in Lb, d \in Dir : files[d][l] # Absent => d \in used[l]

\* A watcher has handled its listing, or its additions.
Up(w) == pc[w] = "idle" /\ w \in alive /\ ~ pending[w]

Added(w) == pc[w] \in {"config", "render", "delete", "reload"} \/ Up(w)

Deleted(w) == pc[w] \in {"delete", "reload"} \/ Up(w)

(***************************************************************************)
(* Of a process with one watcher: tmplBuf is its own; what Elem has is     *)
(* written or to be written; Elem follows the listing; and a file belongs  *)
(* to what Elem has or is about to be deleted.                             *)
(***************************************************************************)
BufferInv(w) ==
    IF pc[w] = "render"
    THEN buf = <<todo[w][cur[w]]>> /\ content[w] = buf
    ELSE buf = <<>>

WrittenInv(w) ==
    \A l \in Lb :
        /\ todo[w][l] \in {Absent, elem[l]}
        /\ elem[l] # Absent /\ todo[w][l] = Absent =>
              files[GetConfigFilePath(elem[l].Protocol)][l] = <<elem[l]>>
        /\ l \in dels[w] => elem[l] = Absent

ListedInv(w) ==
    /\ w \in alive /\ ~ pending[w] => listed[w] = lbs
    /\ Added(w) => \A l \in Lb :
          LET n == Parse(l, listed[w][l])
          IN  listed[w][l] # Absent /\ n # Absent => elem[l] = n
    /\ Deleted(w) => \A l \in Lb : elem[l] # Absent => listed[w][l] # Absent

GoneInv(w) ==
    crashes = 0 => \A l \in Lb, d \in Dir :
        files[d][l] # Absent /\ Unmoved(l) => elem[l] # Absent \/ l \in dels[w]

OneInv ==
    \A w \in Watcher : alive \subseteq {w} =>
        BufferInv(w) /\ WrittenInv(w) /\ ListedInv(w) /\ GoneInv(w)

-----------------------------------------------------------------------------
(* Objects.                                                                *)

(***************************************************************************)
(* Location.CheckValid gives a path to a location that has none, and would *)
(* accept it again; so Nginx.Validate comes as far as before.              *)
(***************************************************************************)
LEMMA ValidatedIs ==
    ASSUME NEW n \in Nginx
    PROVE  LET m == NginxValidated(n)
           IN  /\ m \in Nginx
               /\ m.Type = n.Type /\ m.Name = n.Name
               /\ m.ClusterName = n.ClusterName /\ m.Protocol = n.Protocol
               /\ m.VIP = n.VIP /\ m.Port = n.Port /\ m.Timeout = n.Timeout
               /\ m.MaxRetries = n.MaxRetries /\ m.Pools = n.Pools
               /\ DOMAIN m.Locations = DOMAIN n.Locations
               /\ \A i \in DOMAIN n.Locations :
                     /\ m.Locations[i].PoolName = n.Locations[i].PoolName
                     /\ LocationCheckValid(m.Locations[i])
                           = LocationCheckValid(n.Locations[i])
<1> DEFINE Set(i) == IF i \in Visited(n) /\ n.Locations[i].URIPath = ""
                     THEN [n.Locations[i] EXCEPT !.URIPath = "/"]
                     ELSE n.Locations[i]
           locs == [i \in DOMAIN n.Locations |-> Set(i)]
<1>1. n.Locations \in Locations
  BY DEF Nginx
<1>2. ASSUME NEW i \in DOMAIN n.Locations
      PROVE  /\ Set(i) \in Location
             /\ Set(i).PoolName = n.Locations[i].PoolName
             /\ LocationCheckValid(Set(i)) = LocationCheckValid(n.Locations[i])
  <2> DEFINE loc == n.Locations[i]
  <2>1. loc \in Location
    BY <1>1, <1>2 DEF Locations
  <2>2. "/" \in STRING /\ "/" \in Rooted
    BY ValidationAssumption
  <2>3. CASE Set(i) = loc
    BY <2>1, <2>3
  <2>4. CASE loc.URIPath = "" /\ Set(i) = [loc EXCEPT !.URIPath = "/"]
    <3> HIDE DEF loc
    <3>1. Set(i) \in Location /\ Set(i).PoolName = loc.PoolName /\ Set(i).URIPath = "/"
      BY <2>1, <2>2, <2>4 DEF Location
    <3>2. LocationCheckValid(Set(i)) = TRUE /\ LocationCheckValid(loc) = TRUE
      BY <2>2, <2>4, <3>1 DEF LocationCheckValid
    <3> QED
      BY <3>1, <3>2 DEF loc
  <2> QED
    BY <2>3, <2>4
<1>3. locs \in Locations
  <2> HIDE DEF Set
  <2> QED
    BY <1>1, <1>2 DEF Locations
<1>4. NginxValidated(n) = [n EXCEPT !.Locations = locs]
  BY DEF NginxValidated
<1> HIDE DEF Set
<1>5. \A i \in DOMAIN n.Locations : locs[i] = Set(i)
  OBVIOUS
<1>6. DOMAIN locs = DOMAIN n.Locations
  OBVIOUS
<1> HIDE DEF locs
<1>7. [n EXCEPT !.Locations = locs] \in Nginx
  BY <1>3 DEF Nginx
<1> QED
  BY <1>2, <1>4, <1>5, <1>6, <1>7 DEF Nginx

(***************************************************************************)
(* What Nginx.Validate has accepted and completed it accepts.              *)
(***************************************************************************)
LEMMA StillValid ==
    ASSUME NEW n \in Nginx, NginxValidate(n)
    PROVE  NginxValidated(n) \in Accepted
<1> DEFINE m == NginxValidated(n)
<1>1. /\ m \in Nginx
      /\ m.Type = n.Type /\ m.Name = n.Name
      /\ m.ClusterName = n.ClusterName /\ m.Protocol = n.Protocol
      /\ m.VIP = n.VIP /\ m.Port = n.Port /\ m.Timeout = n.Timeout
      /\ m.MaxRetries = n.MaxRetries /\ m.Pools = n.Pools
  BY ValidatedIs
<1>2. /\ DOMAIN m.Locations = DOMAIN n.Locations
      /\ \A i \in DOMAIN n.Locations :
            /\ m.Locations[i].PoolName = n.Locations[i].PoolName
            /\ LocationCheckValid(m.Locations[i])
                  = LocationCheckValid(n.Locations[i])
  BY ValidatedIs
<1>3. n.Locations \in Locations
  BY DEF Nginx
<1> HIDE DEF m
<1>4. Visited(m) \subseteq Visited(n)
  <2> SUFFICES ASSUME NEW i \in Visited(m)
               PROVE  i \in Visited(n)
    OBVIOUS
  <2>1. i \in DOMAIN n.Locations
    BY <1>2 DEF Visited
  <2>2. 1 .. i \subseteq DOMAIN n.Locations
    BY <1>3, <2>1 DEF Locations
  <2>3. \A j \in 1 .. i : LocationCheckValid(m.Locations[j])
    BY DEF Visited
  <2> HIDE DEF LocationCheckValid
  <2> QED
    BY <1>2, <2>1, <2>2, <2>3 DEF Visited
<1>5. \A i \in Visited(m) : HasPool(m, m.Locations[i])
  <2> SUFFICES ASSUME NEW i \in Visited(m)
               PROVE  HasPool(m, m.Locations[i])
    OBVIOUS
  <2>1. i \in DOMAIN n.Locations /\ HasPool(n, n.Locations[i])
    BY <1>4 DEF Visited, NginxValidate
  <2> QED
    BY <1>1, <1>2, <2>1 DEF HasPool
<1>6. LBCommonCheckValid(m) /\ m.Type = "l7" /\ CheckVIP(m) /\ Port(m.Port)
  BY <1>1 DEF NginxValidate, LBCommonCheckValid, CheckVIP
<1>7. m.Protocol \in {"HTTP", "TCP", "UDP"} /\ CheckL7(m)
  BY <1>1 DEF NginxValidate, CheckL7
<1>8. \A i \in DOMAIN m.Pools : PoolCheckValid(m.Pools[i])
  BY <1>1 DEF NginxValidate
<1>9. NginxValidate(m)
  BY <1>5, <1>6, <1>7, <1>8 DEF NginxValidate
<1> QED
  BY <1>1, <1>9 DEF Accepted, m

(***************************************************************************)
(* Parse yields nothing or an object that is accepted.                     *)
(***************************************************************************)
LEMMA ParseIs ==
    ASSUME NEW l, NEW json \in Requests
    PROVE  Parse(l, json) \in Accepted \union {Absent}
<1>1. Unmarshal(json, NewNginx) \in Nginx
  BY NginxFilesAssumption
<1> QED
  BY <1>1, StillValid DEF Parse

(***************************************************************************)
(* Texts are made of renderings.                                           *)
(***************************************************************************)
LEMMA TextsAre ==
    /\ <<>> \in Renderings /\ <<>> \in Written /\ <<Torn>> \in Written
    /\ Renderings \subseteq Written
    /\ \A b \in Renderings, n \in Accepted : Append(b, n) \in Renderings
    /\ \A n : Append(<<>>, n) = <<n>>
<1> DEFINE All == Accepted \union {Torn}
<1>1. Accepted \subseteq All /\ Torn \in All
  OBVIOUS
<1> HIDE DEF All
<1>2. <<>> \in Seq(All) /\ <<Torn>> \in Seq(All) /\ Seq(Accepted) \subseteq Seq(All)
  BY <1>1
<1>3. <<>> \in Seq(Accepted)
  OBVIOUS
<1>4. \A b \in Seq(Accepted), n \in Accepted : Append(b, n) \in Seq(Accepted)
  OBVIOUS
<1>5. \A n : Append(<<>>, n) = <<n>>
  OBVIOUS
<1> QED
  BY <1>2, <1>3, <1>4, <1>5 DEF Renderings, Written, All

(***************************************************************************)
(* Nothing is a function with no object.                                   *)
(***************************************************************************)
LEMMA NothingIs ==
    /\ \A S : Nothing \in [Lb -> S \union {Absent}]
    /\ \A S : NoFiles \in [Dir -> [Lb -> S \union {Absent}]]
    /\ \A l \in Lb : Nothing[l] = Absent
    /\ \A d \in Dir : NoFiles[d] = Nothing
BY DEF Nothing, NoFiles

-----------------------------------------------------------------------------
(* Type correctness.                                                       *)

(***************************************************************************)
(* The types of the initial state.                                         *)
(***************************************************************************)
LEMMA TypeInit == Init => TypeOK
<1> SUFFICES ASSUME Init PROVE TypeOK
  OBVIOUS
<1>1. /\ lbs = Nothing /\ elem = Nothing /\ files = NoFiles /\ running = NoFiles
      /\ \A w \in Watcher : listed[w] = Nothing /\ todo[w] = Nothing
  BY DEF Init, Each
<1>2. {changes, faults, crashes} \subseteq Nat
  BY DEF Init
<1>3. /\ lbs \in [Lb -> Requests \union {Absent}]
      /\ elem \in [Lb -> Accepted \union {Absent}]
      /\ files \in [Dir -> [Lb -> Written \union {Absent}]]
      /\ running \in [Dir -> [Lb -> Written \union {Absent}]]
      /\ listed \in [Watcher -> [Lb -> Requests \union {Absent}]]
      /\ todo \in [Watcher -> [Lb -> Accepted \union {Absent}]]
  BY <1>1, NothingIs DEF Init, Each
<1>4. /\ hup \in BOOLEAN /\ alive \subseteq Watcher
      /\ used \in [Lb -> SUBSET Dir]
      /\ pending \in [Watcher -> BOOLEAN]
      /\ dels \in [Watcher -> SUBSET Lb]
      /\ needReload \in [Watcher -> BOOLEAN]
  BY DEF Init, Each
<1>5. /\ buf \in Renderings /\ content \in [Watcher -> Renderings]
      /\ cur \in [Watcher -> Lb \union {Absent}]
      /\ pc \in [Watcher ->
                   {"idle", "listed", "config", "render", "delete", "reload"}]
      /\ \A w \in Watcher : pc[w] = "render" <=> cur[w] \in Lb
  BY TextsAre, NginxFilesAssumption DEF Init, Each
<1> QED
  BY <1>2, <1>3, <1>4, <1>5 DEF TypeOK

(***************************************************************************)
(* Every step keeps the types: what Elem, the buffer and the files have    *)
(* has been accepted, or is torn.                                          *)
(***************************************************************************)
LEMMA TypeStep ==
    ASSUME TypeOK, WatcherInv, [Next]_vars
    PROVE  TypeOK'
<1> USE DEF TypeOK
<1>1. CASE UNCHANGED vars
  BY <1>1 DEF vars, consumer, render, counters
<1>2. ASSUME NEW l \in Lb, NEW v \in Requests \union {Absent}, Change(l, v)
      PROVE  TypeOK'
  BY <1>2 DEF Change, render
<1>3. ASSUME NEW w \in Watcher, Run(w)
      PROVE  TypeOK'
  BY <1>3 DEF Run, render, counters
<1>4. ASSUME NEW w \in Watcher, List(w)
      PROVE  TypeOK'
  BY <1>4 DEF List, render, counters
<1>5. ASSUME NEW w \in Watcher, handlerAddOrUpdate(w)
      PROVE  TypeOK'
  BY <1>5, ParseIs DEF handlerAddOrUpdate, render, counters
<1>6. ASSUME NEW w \in Watcher, NEW l \in Lb, ConfigService(w, l)
      PROVE  TypeOK'
  BY <1>6, TextsAre DEF ConfigService, counters
<1>7. ASSUME NEW w \in Watcher, Render(w)
      PROVE  TypeOK'
  <2> DEFINE l == cur[w]
             d == GetConfigFilePath(todo[w][l].Protocol)
  <2>1. l \in Lb /\ d \in Dir
    BY <1>7 DEF Render, GetConfigFilePath, Dir
  <2>2. PICK text \in Text(w) : files' = [files EXCEPT ![d][l] = text]
    BY <1>7 DEF Render
  <2>3. text \in Written
    <3>1. \A n \in Rendered : n \in Accepted
      BY ParseIs DEF Rendered
    <3>2. \A n \in Rendered : <<n>> \in Written
      BY <3>1, TextsAre
    <3>3. content[w] \in Written /\ <<>> \in Written /\ <<Torn>> \in Written
      BY TextsAre
    <3>4. \/ text \in {content[w], <<>>, <<Torn>>}
          \/ text \in {<<n>> : n \in Rendered}
      <4> HIDE DEF TypeOK
      <4> QED
        BY <2>2 DEF Text
    <3>5. text \in {<<n>> : n \in Rendered} => \E n \in Rendered : text = <<n>>
      OBVIOUS
    <3> QED
      BY <3>2, <3>3, <3>4, <3>5
  <2> HIDE DEF d
  <2>4. files' \in [Dir -> [Lb -> Written \union {Absent}]]
    BY <2>1, <2>2, <2>3
  <2>5. used' \in [Lb -> SUBSET Dir]
    BY <1>7, <2>1 DEF Render, d
  <2>6. todo' \in [Watcher -> [Lb -> Accepted \union {Absent}]]
    BY <1>7, <2>1 DEF Render
  <2>7. /\ buf' \in Renderings /\ content' \in [Watcher -> Renderings]
        /\ cur' \in [Watcher -> Lb \union {Absent}]
        /\ needReload' \in [Watcher -> BOOLEAN]
    BY <1>7, TextsAre DEF Render, Collect, Reset
  <2>8. /\ pc' \in [Watcher ->
                     {"idle", "listed", "config", "render", "delete", "reload"}]
        /\ \A v \in Watcher : pc'[v] = "render" <=> cur'[v] \in Lb
    BY <1>7, NginxFilesAssumption DEF Render
  <2> QED
    BY <1>7, <2>4, <2>5, <2>6, <2>7, <2>8 DEF Render, counters
<1>8. ASSUME NEW w \in Watcher, handlerDelete(w)
      PROVE  TypeOK'
  BY <1>8 DEF handlerDelete, render, counters
<1>9. ASSUME NEW w \in Watcher, NEW l \in Lb, DeleteService(w, l)
      PROVE  TypeOK'
  BY <1>9 DEF DeleteService, render, counters, Collect
<1>10. ASSUME NEW w \in Watcher, CheckConfig(w)
       PROVE  TypeOK'
  <2>1. faults' \in Nat
    BY <1>10 DEF CheckConfig, CommandFails
  <2> QED
    BY <1>10, <2>1, ZenonT(60) DEF CheckConfig, render, CommandFails, Done
<1>11. ASSUME NEW w \in Watcher, Reload(w)
       PROVE  TypeOK'
  <2>1. faults' \in Nat
    BY <1>11 DEF Reload, CommandFails
  <2>2. hup' \in BOOLEAN
    BY <1>11 DEF Reload
  <2> QED
    BY <1>11, <2>1, <2>2 DEF Reload, render, Done
<1>12. CASE ReadFiles
  BY <1>12 DEF ReadFiles, consumer, render, counters
<1>13. CASE Crash
  BY <1>13, NothingIs, TextsAre, NginxFilesAssumption DEF Crash, Each
<1> QED
  BY <1>1, <1>2, <1>3, <1>4, <1>5, <1>6, <1>7, <1>8, <1>9, <1>10, <1>11,
     <1>12, <1>13 DEF Next, Step

-----------------------------------------------------------------------------
(* Watchers, files and reloads.                                            *)

(***************************************************************************)
(* Every step keeps what is known of the watchers.                         *)
(***************************************************************************)
LEMMA WatcherStep ==
    ASSUME TypeOK, WatcherInv, [Next]_vars
    PROVE  WatcherInv'
<1> USE DEF WatcherInv
<1>1. /\ pc \in [Watcher -> {"idle", "listed", "config", "render", "delete", "reload"}]
      /\ pending \in [Watcher -> BOOLEAN] /\ needReload \in [Watcher -> BOOLEAN]
      /\ todo \in [Watcher -> [Lb -> Accepted \union {Absent}]]
      /\ dels \in [Watcher -> SUBSET Lb]
      /\ cur \in [Watcher -> Lb \union {Absent}]
      /\ alive \subseteq Watcher
  BY DEF TypeOK
<1>2. CASE UNCHANGED vars
  BY <1>2 DEF vars, consumer, render
<1>3. ASSUME NEW l \in Lb, NEW v \in Requests \union {Absent}, Change(l, v)
      PROVE  WatcherInv'
  BY <1>1, <1>3 DEF Change, render
<1>4. ASSUME NEW w \in Watcher, Run(w)
      PROVE  WatcherInv'
  BY <1>1, <1>4 DEF Run, render
<1>5. ASSUME NEW w \in Watcher, List(w)
      PROVE  WatcherInv'
  BY <1>1, <1>5 DEF List, render
<1>6. ASSUME NEW w \in Watcher, handlerAddOrUpdate(w)
      PROVE  WatcherInv'
  BY <1>1, <1>6 DEF handlerAddOrUpdate, render
<1>7. ASSUME NEW w \in Watcher, NEW l \in Lb, ConfigService(w, l)
      PROVE  WatcherInv'
  BY <1>1, <1>7 DEF ConfigService
<1>8. ASSUME NEW w \in Watcher, Render(w)
      PROVE  WatcherInv'
  BY <1>1, <1>8 DEF Render, Collect
<1>9. ASSUME NEW w \in Watcher, handlerDelete(w)
      PROVE  WatcherInv'
  BY <1>1, <1>9 DEF handlerDelete, render
<1>10. ASSUME NEW w \in Watcher, NEW l \in Lb, DeleteService(w, l)
       PROVE  WatcherInv'
  BY <1>1, <1>10 DEF DeleteService, render, Collect
<1>11. ASSUME NEW w \in Watcher, CheckConfig(w)
       PROVE  WatcherInv'
  BY <1>1, <1>11 DEF CheckConfig, render, Done
<1>12. ASSUME NEW w \in Watcher, Reload(w)
       PROVE  WatcherInv'
  BY <1>1, <1>12 DEF Reload, render, Done
<1>13. CASE ReadFiles
  BY <1>13 DEF ReadFiles, consumer, render
<1>14. CASE Crash
  BY <1>14 DEF Crash, Each
<1> QED
  BY <1>2, <1>3, <1>4, <1>5, <1>6, <1>7, <1>8, <1>9, <1>10, <1>11, <1>12,
     <1>13, <1>14 DEF Next, Step

(***************************************************************************)
(* Every step records where it writes.                                     *)
(***************************************************************************)
LEMMA UsedStep ==
    ASSUME TypeOK, UsedInv, [Next]_vars
    PROVE  UsedInv'
<1>1. /\ files \in [Dir -> [Lb -> Written \union {Absent}]]
      /\ used \in [Lb -> SUBSET Dir]
  BY DEF TypeOK
<1>2. CASE UNCHANGED <<files, used>>
  BY <1>2 DEF UsedInv
<1>3. ASSUME NEW w \in Watcher, Render(w)
      PROVE  UsedInv'
  <2> DEFINE l == cur[w]
             d == GetConfigFilePath(todo[w][l].Protocol)
  <2>1. /\ \E text : files' = [files EXCEPT ![d][l] = text]
        /\ used' = [used EXCEPT ![l] = @ \union {d}]
    BY <1>3 DEF Render
  <2> HIDE DEF l, d
  <2> QED
    BY <1>1, <2>1 DEF UsedInv
<1>4. ASSUME NEW w \in Watcher, NEW l \in Lb, DeleteService(w, l)
      PROVE  UsedInv'
  BY <1>1, <1>4 DEF DeleteService, UsedInv
<1> QED
  BY <1>2, <1>3, <1>4
     DEF Next, Step, Change, Run, List, handlerAddOrUpdate, handlerDelete,
         ConfigService, CheckConfig, Reload, ReadFiles, Crash, vars

(***************************************************************************)
(* A step that changes a file leaves a watcher that will reload; the reload*)
(* is left out only for files that do not load.                            *)
(***************************************************************************)
LEMMA ReloadStep ==
    ASSUME TypeOK, WatcherInv, ReloadInv, [Next]_vars
    PROVE  ReloadInv'
<1> SUFFICES ASSUME crashes' = 0, faults' = 0
             PROVE  ToLoad'
  BY DEF ReloadInv
<1>1. /\ pc \in [Watcher -> {"idle", "listed", "config", "render", "delete", "reload"}]
      /\ needReload \in [Watcher -> BOOLEAN]
      /\ faults \in Nat /\ crashes \in Nat /\ faults + 1 # 0 /\ crashes + 1 # 0
  BY DEF TypeOK
<1>2. crashes = 0 /\ faults = 0
  BY <1>1 DEF Next, Step, Change, Run, List, handlerAddOrUpdate, handlerDelete,
              ConfigService, DeleteService, Render, CheckConfig, Reload,
              CommandFails, ReadFiles, Crash, counters, vars
<1>3. ToLoad
  BY <1>2 DEF ReloadInv
<1>4. ASSUME UNCHANGED <<files, running, hup, needReload>>,
             \A w \in Watcher : pc[w] = "reload" => pc'[w] = "reload"
      PROVE  ToLoad'
  BY <1>3, <1>4 DEF ToLoad
<1>5. ASSUME UNCHANGED <<files, running, hup, needReload, pc>>
      PROVE  ToLoad'
  BY <1>4, <1>5
<1>6. ASSUME NEW w \in Watcher, Collect(w), UNCHANGED <<running, hup>>,
             \A v \in Watcher : pc[v] = "reload" => pc'[v] = "reload"
      PROVE  ToLoad'
  <2>1. CASE files' = files
    <3>1. \A v \in Watcher : needReload[v] => needReload'[v]
      BY <1>1, <1>6 DEF Collect
    <3> QED
      BY <1>3, <1>6, <2>1, <3>1 DEF ToLoad
  <2>2. CASE files' # files
    <3>1. needReload'[w]
      BY <1>1, <1>6, <2>2 DEF Collect
    <3> QED
      BY <1>6, <3>1 DEF ToLoad
  <2> QED
    BY <2>1, <2>2
<1>7. ASSUME NEW w \in Watcher, NEW l \in Lb, ConfigService(w, l)
      PROVE  ToLoad'
  <2>1. \A v \in Watcher : pc[v] = "reload" => pc'[v] = "reload"
    BY <1>1, <1>7 DEF ConfigService
  <2> QED
    BY <1>4, <1>7, <2>1 DEF ConfigService
<1>8. ASSUME NEW w \in Watcher, Render(w)
      PROVE  ToLoad'
  <2>1. \A v \in Watcher : pc[v] = "reload" => pc'[v] = "reload"
    BY <1>1, <1>8 DEF Render
  <2> QED
    BY <1>6, <1>8, <2>1 DEF Render
<1>9. ASSUME NEW w \in Watcher, NEW l \in Lb, DeleteService(w, l)
      PROVE  ToLoad'
  BY <1>6, <1>9 DEF DeleteService
<1>10. ASSUME NEW w \in Watcher, CheckConfig(w)
       PROVE  ToLoad'
  <2>1. UNCHANGED <<files, running, hup>>
    BY <1>10 DEF CheckConfig
  <2>2. CASE ~ Test(files)
    BY <2>1, <2>2 DEF ToLoad
  <2>3. CASE needReload[w] /\ Test(files)
    <3>1. pc'[w] = "reload"
      BY <1>1, <1>2, <1>10, <2>3 DEF CheckConfig, CommandFails
    <3> QED
      BY <3>1 DEF ToLoad
  <2>4. CASE ~ needReload[w]
    <3>1. /\ UNCHANGED needReload
          /\ \A v \in Watcher : pc[v] = "reload" => pc'[v] = "reload"
      BY <1>1, <1>10, <2>4 DEF CheckConfig, Done
    <3> QED
      BY <1>4, <2>1, <3>1
  <2> QED
    BY <2>2, <2>3, <2>4
<1>11. ASSUME NEW w \in Watcher, Reload(w)
       PROVE  ToLoad'
  <2>1. hup'
    BY <1>1, <1>2, <1>11 DEF Reload, CommandFails
  <2> QED
    BY <2>1 DEF ToLoad
<1>12. CASE ReadFiles
  <2>1. running' = files' \/ ~ Test(files')
    BY <1>12 DEF ReadFiles
  <2> QED
    BY <2>1 DEF ToLoad
<1>13. CASE Crash
  BY <1>1, <1>2, <1>13 DEF Crash
<1>14. ASSUME NEW l \in Lb, NEW v \in Requests \union {Absent}, Change(l, v)
       PROVE  ToLoad'
  BY <1>5, <1>14 DEF Change
<1>15. ASSUME NEW w \in Watcher, Run(w)
       PROVE  ToLoad'
  BY <1>5, <1>15 DEF Run
<1>16. CASE UNCHANGED vars
  BY <1>5, <1>16 DEF vars, consumer
<1>17. ASSUME NEW w \in Watcher, List(w) \/ handlerAddOrUpdate(w) \/ handlerDelete(w)
       PROVE  ToLoad'
  <2>1. \A v \in Watcher : pc[v] = "reload" => pc'[v] = "reload"
    BY <1>1, <1>17 DEF List, handlerAddOrUpdate, handlerDelete
  <2> QED
    BY <1>4, <1>17, <2>1 DEF List, handlerAddOrUpdate, handlerDelete
<1> QED
  BY <1>7, <1>8, <1>9, <1>10, <1>11, <1>12, <1>13, <1>14, <1>15, <1>16, <1>17
     DEF Next, Step

(***************************************************************************)
(* The types of the state; what is rendered has been accepted.             *)
(***************************************************************************)
THEOREM TypeCorrect == Spec => []TypeOK
<1>1. Init => TypeOK /\ WatcherInv
  BY TypeInit DEF Init, Each, WatcherInv
<1>2. TypeOK /\ WatcherInv /\ [Next]_vars => TypeOK' /\ WatcherInv'
  BY TypeStep, WatcherStep
<1> QED
  BY <1>1, <1>2, PTL DEF Spec

(***************************************************************************)
(* While the process lives and no command fails, no change of the files is *)
(* forgotten, however many watchers share the buffer.                      *)
(***************************************************************************)
THEOREM RunsFilesHolds == Spec => []RunsFiles
<1>1. Init => TypeOK /\ WatcherInv /\ ReloadInv
  <2>1. Init => WatcherInv /\ ReloadInv
    BY DEF Init, Each, WatcherInv, ReloadInv, ToLoad
  <2> QED
    BY <2>1, TypeInit
<1>2. TypeOK /\ WatcherInv /\ ReloadInv /\ [Next]_vars
         => TypeOK' /\ WatcherInv' /\ ReloadInv'
  BY TypeStep, WatcherStep, ReloadStep
<1>3. WatcherInv /\ ReloadInv => RunsFiles
  BY DEF WatcherInv, ReloadInv, ToLoad, RunsFiles
<1> QED
  BY <1>1, <1>2, <1>3, PTL DEF Spec

-----------------------------------------------------------------------------
(* A process with one watcher.                                             *)

\* What is known of it, and of the others.
OneOf(w) == BufferInv(w) /\ WrittenInv(w) /\ ListedInv(w) /\ GoneInv(w)

(***************************************************************************)
(* Initially.                                                              *)
(***************************************************************************)
LEMMA OneInit == Init => OneInv
<1> SUFFICES ASSUME Init, NEW w \in Watcher
             PROVE  OneOf(w)
  BY DEF OneInv, OneOf
<1>1. /\ pc[w] = "idle" /\ w \notin alive /\ buf = <<>> /\ dels[w] = {}
      /\ todo[w] = Nothing /\ elem = Nothing /\ files = NoFiles
  BY DEF Init, Each
<1>2. BufferInv(w) /\ WrittenInv(w) /\ GoneInv(w)
  BY <1>1, NothingIs DEF BufferInv, WrittenInv, GoneInv
<1>3. ListedInv(w)
  BY <1>1 DEF ListedInv, Added, Deleted, Up
<1> QED
  BY <1>2, <1>3 DEF OneOf

(***************************************************************************)
(* A step of the only watcher.                                             *)
(***************************************************************************)
LEMMA ListOne ==
    ASSUME TypeOK, WatcherInv, NEW w \in Watcher, OneOf(w), List(w)
    PROVE  OneOf(w)'
<1>1. /\ pc \in [Watcher -> {"idle", "listed", "config", "render", "delete", "reload"}]
      /\ pending \in [Watcher -> BOOLEAN]
      /\ listed \in [Watcher -> [Lb -> Requests \union {Absent}]]
  BY DEF TypeOK
<1>2. pc[w] = "idle" /\ pc'[w] = "listed" /\ listed'[w] = lbs'
  BY <1>1 DEF List
<1>3. UNCHANGED <<elem, files, used, todo, dels, buf, content, cur, crashes>>
  BY DEF List, render, counters
<1>4. BufferInv(w)' /\ WrittenInv(w)' /\ GoneInv(w)'
  BY <1>2, <1>3 DEF OneOf, BufferInv, WrittenInv, GoneInv, Unmoved
<1>5. ListedInv(w)'
  BY <1>2 DEF ListedInv, Added, Deleted, Up
<1> QED
  BY <1>4, <1>5 DEF OneOf

LEMMA AddOne ==
    ASSUME TypeOK, WatcherInv, NEW w \in Watcher, OneOf(w), handlerAddOrUpdate(w)
    PROVE  OneOf(w)'
<1> DEFINE new(l) == IF listed[w][l] = Absent THEN Absent ELSE Parse(l, listed[w][l])
           Changed(l) == new(l) \notin {Absent, elem[l]}
<1>1. /\ pc \in [Watcher -> {"idle", "listed", "config", "render", "delete", "reload"}]
      /\ todo \in [Watcher -> [Lb -> Accepted \union {Absent}]]
  BY DEF TypeOK
<1>2. pc[w] = "listed" /\ pc'[w] = "config" /\ todo[w] = Nothing /\ dels[w] = {}
  BY <1>1 DEF handlerAddOrUpdate, WatcherInv
<1>3. /\ \A l \in Lb : todo'[w][l] = IF Changed(l) THEN new(l) ELSE Absent
      /\ \A l \in Lb : elem'[l] = IF Changed(l) THEN new(l) ELSE elem[l]
  BY <1>1 DEF handlerAddOrUpdate
<1>4. UNCHANGED <<lbs, files, used, alive, pending, listed, dels, buf, crashes>>
  BY DEF handlerAddOrUpdate, render, counters
<1>5. BufferInv(w)'
  BY <1>2, <1>4 DEF OneOf, BufferInv
<1>6. WrittenInv(w)'
  BY <1>2, <1>3, <1>4, NothingIs DEF OneOf, WrittenInv
<1>7. ListedInv(w)'
  BY <1>2, <1>3, <1>4 DEF OneOf, ListedInv, Deleted, Up
<1>8. GoneInv(w)'
  BY <1>2, <1>3, <1>4 DEF OneOf, GoneInv, Unmoved
<1> QED
  BY <1>5, <1>6, <1>7, <1>8 DEF OneOf

LEMMA ConfigOne ==
    ASSUME TypeOK, WatcherInv, NEW w \in Watcher, OneOf(w),
           NEW l \in Lb, ConfigService(w, l)
    PROVE  OneOf(w)'
<1>1. /\ pc \in [Watcher -> {"idle", "listed", "config", "render", "delete", "reload"}]
      /\ cur \in [Watcher -> Lb \union {Absent}]
      /\ content \in [Watcher -> Renderings]
  BY DEF TypeOK
<1>2. /\ pc[w] = "config" /\ pc'[w] = "render" /\ cur'[w] = l
      /\ buf' = Append(buf, todo[w][l]) /\ content'[w] = buf'
  BY <1>1 DEF ConfigService
<1>3. UNCHANGED <<lbs, elem, files, used, alive, pending, listed, todo, dels, crashes>>
  BY DEF ConfigService, counters
<1>4. BufferInv(w)'
  BY <1>2, <1>3, TextsAre DEF OneOf, BufferInv
<1>5. WrittenInv(w)' /\ GoneInv(w)'
  BY <1>3 DEF OneOf, WrittenInv, GoneInv, Unmoved
<1>6. ListedInv(w)'
  BY <1>2, <1>3 DEF OneOf, ListedInv, Added, Deleted, Up
<1> QED
  BY <1>4, <1>5, <1>6 DEF OneOf

LEMMA RenderOne ==
    ASSUME TypeOK, WatcherInv, NEW w \in Watcher, OneOf(w), Render(w)
    PROVE  OneOf(w)'
<1> DEFINE l == cur[w]
           n == todo[w][l]
           d == GetConfigFilePath(n.Protocol)
<1>1. /\ pc \in [Watcher -> {"idle", "listed", "config", "render", "delete", "reload"}]
      /\ todo \in [Watcher -> [Lb -> Accepted \union {Absent}]]
      /\ files \in [Dir -> [Lb -> Written \union {Absent}]]
      /\ used \in [Lb -> SUBSET Dir]
  BY DEF TypeOK
<1>2. pc[w] = "render" /\ pc'[w] = "config" /\ buf' = <<>>
  BY <1>1 DEF Render, Reset
<1>3. l \in Lb /\ n # Absent /\ n = elem[l]
  BY <1>2 DEF TypeOK, WatcherInv, OneOf, WrittenInv
<1>4. d \in Dir
  BY DEF GetConfigFilePath, Dir
<1>5. Text(w) = {<<n>>}
  BY <1>2 DEF OneOf, BufferInv, Text
<1>6. files' = [files EXCEPT ![d][l] = <<n>>] /\ used' = [used EXCEPT ![l] = @ \union {d}]
  BY <1>5 DEF Render
<1>7. todo' = [todo EXCEPT ![w][l] = Absent]
  BY DEF Render
<1>8. UNCHANGED <<lbs, elem, alive, pending, listed, dels, crashes>>
  BY DEF Render, counters
<1> HIDE DEF l, n
<1>9. BufferInv(w)'
  BY <1>2 DEF BufferInv
<1>10. WrittenInv(w)'
  <2> SUFFICES ASSUME NEW k \in Lb
               PROVE  /\ todo'[w][k] \in {Absent, elem[k]}
                      /\ elem[k] # Absent /\ todo'[w][k] = Absent =>
                            files'[GetConfigFilePath(elem[k].Protocol)][k] = <<elem[k]>>
                      /\ k \in dels[w] => elem[k] = Absent
    BY <1>8 DEF WrittenInv
  <2>1. CASE k = l
    BY <1>1, <1>3, <1>4, <1>6, <1>7, <2>1 DEF OneOf, WrittenInv
  <2>2. CASE k # l
    <3>1. todo'[w][k] = todo[w][k] /\ \A e \in Dir : files'[e][k] = files[e][k]
      BY <1>1, <1>3, <1>4, <1>6, <1>7, <2>2
    <3>2. GetConfigFilePath(elem[k].Protocol) \in Dir
      BY DEF GetConfigFilePath, Dir
    <3> QED
      BY <3>1, <3>2 DEF OneOf, WrittenInv
  <2> QED
    BY <2>1, <2>2
<1>11. ListedInv(w)'
  BY <1>2, <1>8 DEF OneOf, ListedInv, Added, Deleted, Up
<1>12. GoneInv(w)'
  <2> SUFFICES ASSUME crashes = 0, NEW k \in Lb, NEW e \in Dir,
                      files'[e][k] # Absent, Unmoved(k)'
               PROVE  elem[k] # Absent \/ k \in dels[w]
    BY <1>8 DEF GoneInv
  <2>1. CASE k = l
    BY <1>3, <2>1
  <2>2. CASE k # l
    <3>1. files'[e][k] = files[e][k] /\ used'[k] = used[k]
      BY <1>1, <1>3, <1>4, <1>6, <2>2
    <3> QED
      BY <3>1 DEF OneOf, GoneInv, Unmoved
  <2> QED
    BY <2>1, <2>2
<1> QED
  BY <1>9, <1>10, <1>11, <1>12 DEF OneOf

LEMMA DeleteOne ==
    ASSUME TypeOK, WatcherInv, NEW w \in Watcher, OneOf(w), handlerDelete(w)
    PROVE  OneOf(w)'
<1> DEFINE gone == {l \in Lb : elem[l] # Absent /\ listed[w][l] = Absent}
<1>1. /\ pc \in [Watcher -> {"idle", "listed", "config", "render", "delete", "reload"}]
      /\ dels \in [Watcher -> SUBSET Lb]
  BY DEF TypeOK
<1>2. /\ pc[w] = "config" /\ pc'[w] = "delete" /\ dels'[w] = gone
      /\ todo[w] = Nothing /\ dels[w] = {}
      /\ \A l \in Lb : elem'[l] = IF l \in gone THEN Absent ELSE elem[l]
  BY <1>1 DEF handlerDelete, WatcherInv
<1>3. UNCHANGED <<lbs, files, used, alive, pending, listed, todo, buf, crashes>>
  BY DEF handlerDelete, render, counters
<1>4. BufferInv(w)'
  BY <1>2, <1>3 DEF OneOf, BufferInv
<1>5. WrittenInv(w)'
  BY <1>2, <1>3, NothingIs DEF OneOf, WrittenInv
<1>6. ListedInv(w)'
  BY <1>2, <1>3 DEF OneOf, ListedInv, Added
<1>7. GoneInv(w)'
  BY <1>2, <1>3 DEF OneOf, GoneInv, Unmoved
<1> QED
  BY <1>4, <1>5, <1>6, <1>7 DEF OneOf

LEMMA ServiceOne ==
    ASSUME TypeOK, WatcherInv, UsedInv, NEW w \in Watcher, OneOf(w),
           NEW l \in Lb, DeleteService(w, l)
    PROVE  OneOf(w)'
<1>1. /\ files \in [Dir -> [Lb -> Written \union {Absent}]]
      /\ dels \in [Watcher -> SUBSET Lb]
  BY DEF TypeOK
<1>2. /\ pc[w] = "delete" /\ l \in dels[w] /\ dels'[w] = dels[w] \ {l}
      /\ \A d \in Dir, k \in Lb :
            files'[d][k] = IF d \in FirstFound(l) /\ k = l THEN Absent ELSE files[d][k]
  BY <1>1 DEF DeleteService
<1>3. /\ UNCHANGED <<lbs, elem, used, alive, pending, pc, listed, todo, crashes>>
      /\ UNCHANGED <<buf, cur, content>>
  BY DEF DeleteService, render, counters
<1>4. elem[l] = Absent
  BY <1>2 DEF OneOf, WrittenInv
<1>5. BufferInv(w)'
  BY <1>3 DEF OneOf, BufferInv
<1>6. WrittenInv(w)'
  <2>1. \A k \in Lb : GetConfigFilePath(elem[k].Protocol) \in Dir
    BY DEF GetConfigFilePath, Dir
  <2> QED
    BY <1>2, <1>3, <1>4, <2>1 DEF OneOf, WrittenInv
<1>7. ListedInv(w)'
  BY <1>3 DEF OneOf, ListedInv, Added, Deleted, Up
<1>8. GoneInv(w)'
  <2> SUFFICES ASSUME crashes = 0, NEW k \in Lb, NEW d \in Dir,
                      files'[d][k] # Absent, Unmoved(k)
               PROVE  elem[k] # Absent \/ k \in dels'[w]
    BY <1>3 DEF GoneInv, Unmoved
  <2>1. files[d][k] # Absent
    BY <1>2
  <2>2. CASE k = l
    <3>1. d \notin FirstFound(l)
      BY <1>2, <2>2
    <3>2. "conf.d" \in Dir
      BY DEF Dir
    <3>3. \A e \in Dir : files[e][l] # Absent => e = d
      BY <2>1, <2>2 DEF UsedInv, Unmoved
    <3> QED
      BY <2>1, <2>2, <3>1, <3>2, <3>3 DEF FirstFound
  <2>3. CASE k # l
    BY <1>2, <2>1, <2>3 DEF OneOf, GoneInv
  <2> QED
    BY <2>2, <2>3
<1> QED
  BY <1>5, <1>6, <1>7, <1>8 DEF OneOf

LEMMA EndOne ==
    ASSUME TypeOK, WatcherInv, NEW w \in Watcher, OneOf(w),
           CheckConfig(w) \/ Reload(w)
    PROVE  OneOf(w)'
<1>1. pc \in [Watcher -> {"idle", "listed", "config", "render", "delete", "reload"}]
  BY DEF TypeOK
<1>2. /\ pc[w] \in {"delete", "reload"} /\ pc'[w] \in {"reload", "idle"}
  BY <1>1 DEF CheckConfig, Reload, Done
<1>3. UNCHANGED <<lbs, elem, files, used, alive, pending, listed, todo, dels,
                  buf, crashes>>
  BY DEF CheckConfig, Reload, render
<1>4. BufferInv(w)' /\ WrittenInv(w)' /\ GoneInv(w)'
  BY <1>2, <1>3 DEF OneOf, BufferInv, WrittenInv, GoneInv, Unmoved
<1>5. ListedInv(w)'
  BY <1>2, <1>3 DEF OneOf, ListedInv, Added, Deleted, Up
<1> QED
  BY <1>4, <1>5 DEF OneOf

(***************************************************************************)
(* Every step: the other watchers have nothing to do, and one that starts  *)
(* beside it ends what is claimed.                                         *)
(***************************************************************************)
LEMMA OneStep ==
    ASSUME TypeOK, WatcherInv, UsedInv, OneInv, [Next]_vars
    PROVE  OneInv'
<1> SUFFICES ASSUME NEW w \in Watcher, alive' \subseteq {w}
             PROVE  OneOf(w)'
  BY DEF OneInv, OneOf
<1>1. ASSUME alive \subseteq {w}
      PROVE  OneOf(w)
  BY <1>1 DEF OneInv, OneOf
<1>2. /\ pc \in [Watcher -> {"idle", "listed", "config", "render", "delete", "reload"}]
      /\ pending \in [Watcher -> BOOLEAN]
  BY DEF TypeOK
<1>3. ASSUME OneOf(w), UNCHANGED <<lbs, elem, files, used, listed, todo, dels, buf,
                                   cur, content, pc, crashes, alive, pending>>
      PROVE  OneOf(w)'
  BY <1>3 DEF OneOf, BufferInv, WrittenInv, ListedInv, GoneInv, Added, Deleted,
              Up, Unmoved
<1>4. CASE UNCHANGED vars
  BY <1>1, <1>3, <1>4 DEF vars, consumer, render, counters
<1>5. CASE ReadFiles
  BY <1>1, <1>3, <1>5 DEF ReadFiles, consumer, render, counters
<1>6. ASSUME NEW l \in Lb, NEW v \in Requests \union {Absent}, Change(l, v)
      PROVE  OneOf(w)'
  <2>1. /\ UNCHANGED <<elem, files, used, alive, pc, listed, todo, dels, buf, cur,
                       content, crashes>>
        /\ pending'[w] = (w \in alive)
    BY <1>6 DEF Change, render
  <2>2. OneOf(w)
    BY <1>1, <2>1
  <2>3. BufferInv(w)' /\ WrittenInv(w)' /\ GoneInv(w)'
    BY <2>1, <2>2 DEF OneOf, BufferInv, WrittenInv, GoneInv, Unmoved
  <2>4. ListedInv(w)'
    BY <2>1, <2>2 DEF OneOf, ListedInv, Added, Deleted, Up
  <2> QED
    BY <2>3, <2>4 DEF OneOf
<1>7. ASSUME NEW v \in Watcher, Run(v)
      PROVE  OneOf(w)'
  <2>1. /\ UNCHANGED <<lbs, elem, files, used, pc, listed, todo, dels, buf, cur,
                       content, crashes>>
        /\ v \notin alive /\ alive' = alive \union {v} /\ pending'[v]
    BY <1>2, <1>7 DEF Run, render, counters
  <2>2. v = w /\ OneOf(w) /\ pc[w] = "idle"
    BY <1>1, <2>1 DEF WatcherInv
  <2>3. BufferInv(w)' /\ WrittenInv(w)' /\ GoneInv(w)'
    BY <2>1, <2>2 DEF OneOf, BufferInv, WrittenInv, GoneInv, Unmoved
  <2>4. ListedInv(w)'
    BY <2>1, <2>2 DEF OneOf, ListedInv, Added, Deleted, Up
  <2> QED
    BY <2>3, <2>4 DEF OneOf
<1>8. ASSUME NEW v \in Watcher, Step(v)
      PROVE  OneOf(w)'
  <2>1. UNCHANGED alive
    BY <1>8 DEF Step, List, handlerAddOrUpdate, handlerDelete, Render, CheckConfig,
                Reload, ConfigService, DeleteService
  <2>2. v \in alive
    BY <1>8 DEF WatcherInv, Step, List, handlerAddOrUpdate, handlerDelete, Render,
                CheckConfig, Reload, ConfigService, DeleteService
  <2>3. v = w /\ OneOf(w)
    BY <1>1, <2>1, <2>2
  <2> QED
    BY <1>8, <2>3, ListOne, AddOne, ConfigOne, RenderOne, DeleteOne, ServiceOne,
       EndOne DEF Step
<1>9. CASE Crash
  <2>1. /\ pc'[w] = "idle" /\ alive' = {} /\ buf' = <<>> /\ dels'[w] = {}
        /\ todo'[w] = Nothing /\ elem' = Nothing /\ crashes' = crashes + 1
    BY <1>9 DEF Crash, Each
  <2>2. crashes' # 0
    BY <2>1 DEF TypeOK
  <2>3. BufferInv(w)' /\ WrittenInv(w)' /\ GoneInv(w)'
    BY <2>1, <2>2, NothingIs DEF BufferInv, WrittenInv, GoneInv
  <2>4. ListedInv(w)'
    BY <2>1 DEF ListedInv, Added, Deleted, Up
  <2> QED
    BY <2>3, <2>4 DEF OneOf
<1> QED
  BY <1>4, <1>5, <1>6, <1>7, <1>8, <1>9 DEF Next

(***************************************************************************)
(* When a process that has had one role has handled its events, the        *)
(* directories say what etcd does.                                         *)
(***************************************************************************)
THEOREM FilesConvergeHolds == Spec => []FilesConverge
<1>1. Init => TypeOK /\ WatcherInv /\ UsedInv /\ OneInv
  <2>1. Init => WatcherInv /\ UsedInv
    BY NothingIs DEF Init, Each, WatcherInv, UsedInv
  <2> QED
    BY <2>1, TypeInit, OneInit
<1>2. TypeOK /\ WatcherInv /\ UsedInv /\ OneInv /\ [Next]_vars
         => TypeOK' /\ WatcherInv' /\ UsedInv' /\ OneInv'
  BY TypeStep, WatcherStep, UsedStep, OneStep
<1>3. TypeOK /\ WatcherInv /\ UsedInv /\ OneInv => FilesConverge
  <2> SUFFICES ASSUME WatcherInv, OneInv, NEW w \in Watcher,
                      alive = {w}, pc[w] = "idle", ~ pending[w], NEW l \in Lb
               PROVE  IF lbs[l] = Absent
                      THEN Unmoved(l) /\ crashes = 0 =>
                              \A d \in Dir : files[d][l] = Absent
                      ELSE LET n == Parse(l, lbs[l])
                           IN  n # Absent => files[GetConfigFilePath(n.Protocol)][l] = <<n>>
    BY DEF FilesConverge
  <2>1. OneOf(w)
    BY DEF OneInv, OneOf
  <2>2. listed[w] = lbs /\ Added(w) /\ Deleted(w)
    BY <2>1 DEF OneOf, ListedInv, Added, Deleted, Up
  <2>3. todo[w][l] = Absent /\ dels[w] = {}
    BY NothingIs DEF WatcherInv
  <2>4. CASE lbs[l] = Absent
    BY <2>1, <2>2, <2>3, <2>4 DEF OneOf, ListedInv, GoneInv
  <2>5. CASE lbs[l] # Absent
    BY <2>1, <2>2, <2>3, <2>5 DEF OneOf, ListedInv, WrittenInv
  <2> QED
    BY <2>4, <2>5
<1> QED
  BY <1>1, <1>2, <1>3, PTL DEF Spec

=============================================================================
