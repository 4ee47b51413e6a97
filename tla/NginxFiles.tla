----------------------------- MODULE NginxFiles -----------------------------
(***************************************************************************)
(* One lbmanager process of type "l7": LBBase with NginxImpl (pkg/lbm      *)
(* nginx.go) between the load balancers in etcd, the files in the two      *)
(* directories nginx includes, and the configuration nginx runs.           *)
(*                                                                         *)
(* Roles make no difference to NginxImpl, but every Run starts a watcher,  *)
(* and all of them render into one buffer, tmplBuf.  The watcher of a role *)
(* that has ended handles one more listing at most (see Lbm); here it may  *)
(* go on, which adds interleavings and takes none away.                    *)
(* Each template execution, file operation and shell command is a step.    *)
(* What WatchTree may miss is in Lbm; here no event is lost.               *)
(***************************************************************************)
EXTENDS Validation

CONSTANTS
    Lb,           \* names of load balancers; the last part of their keys
    Cluster,      \* ClusterName of the configuration
    Watcher,      \* the watchers a process may start
    Requests,     \* the objects users may write
    Absent,       \* no value
    Torn,         \* text mixed from several renderings
    MaxChanges,   \* bound: writes of users
    MaxFaults,    \* bound: shell commands that fail
    MaxCrashes    \* bound: crashes of the process

\* What users write has the types json.Unmarshal asks for.
ASSUME NginxFilesAssumption ==
    /\ \A json \in Requests : Unmarshal(json, NewNginx) \in Nginx
    /\ Absent \notin Lb
    /\ {MaxChanges, MaxFaults, MaxCrashes} \subseteq Nat

Dir == {"conf.d", "stream.conf.d"}

VARIABLES
    lbs,          \* etcd: lb/<catalog>/l7/<name>
    elem,         \* Elem
    files,        \* per directory, the objects whose text a file is made of
    buf,          \* tmplBuf, in the same way
    hup,          \* nginx has been told to reload
    running,      \* the files nginx has loaded
    used,         \* history: the directories a load balancer was written to
    alive,        \* the watchers of the process
    pending,      \* a watcher has an event to list for
    pc,           \* where a watcher is
    listed,       \* its listing
    todo,         \* lbs of handlerAddOrUpdate still to configure
    cur,          \* the one whose file is being written
    content,      \* content of Render
    dels,         \* lbs of handlerDelete still to delete
    needReload,   \* needReload of handlerEvent
    changes, faults, crashes

render   == <<buf, cur, content>>
consumer == <<alive, pending, pc, listed, todo, dels, needReload, render>>
counters == <<changes, faults, crashes>>
vars == <<lbs, elem, files, hup, running, used, consumer, counters>>

Nothing == [l \in Lb |-> Absent]
NoFiles == [d \in Dir |-> Nothing]
Each(v) == [w \in Watcher |-> v]

Init ==
    /\ lbs = Nothing
    /\ elem = Nothing
    /\ files = NoFiles
    /\ buf = <<>>
    /\ cur = Each(Absent)
    /\ content = Each(<<>>)
    /\ hup = FALSE
    /\ running = NoFiles
    /\ used = [l \in Lb |-> {}]
    /\ alive = {}
    /\ pending = Each(FALSE)
    /\ pc = Each("idle")
    /\ listed = Each(Nothing)
    /\ todo = Each(Nothing)
    /\ dels = Each({})
    /\ needReload = Each(FALSE)
    /\ changes = 0 /\ faults = 0 /\ crashes = 0

\* A user sets or deletes a key.
Change(l, v) ==
    /\ changes < MaxChanges
    /\ changes' = changes + 1
    /\ lbs' = [lbs EXCEPT ![l] = v]
    /\ lbs' # lbs
    /\ pending' = [w \in Watcher |-> w \in alive]
    /\ UNCHANGED <<elem, files, hup, running, used, alive, pc, listed, todo, dels,
                   needReload, render, faults, crashes>>

\* LBBase.Run, for each role the process is given: one more watcher, which
\* lists the directory first.  Recover does nothing.
Run(w) ==
    /\ w \notin alive
    /\ alive' = alive \union {w}
    /\ pending' = [pending EXCEPT ![w] = TRUE]
    /\ UNCHANGED <<lbs, elem, files, hup, running, used, pc, listed, todo, dels,
                   needReload, render, counters>>

-----------------------------------------------------------------------------
(* handlerEvent.                                                           *)

List(w) ==
    /\ pc[w] = "idle"
    /\ pending[w]
    /\ pending' = [pending EXCEPT ![w] = FALSE]
    /\ listed' = [listed EXCEPT ![w] = lbs]
    /\ pc' = [pc EXCEPT ![w] = "listed"]
    /\ UNCHANGED <<lbs, elem, files, hup, running, used, alive, todo, dels, needReload,
                   render, counters>>

\* Seeded fault: the error of Validate is ignored.
Parse_Unchecked(l, json) ==
    LET n == Unmarshal(json, NewNginx)
    IN  IF n.ClusterName = Cluster /\ n.Name = l THEN n ELSE Absent

\* NginxImpl.Parse and the tests of handlerAddOrUpdate; Absent: skipped.
Parse(l, json) ==
    LET n == Unmarshal(json, NewNginx)
    IN  IF NginxValidate(n) /\ n.ClusterName = Cluster /\ n.Name = l
        THEN NginxValidated(n) ELSE Absent

\* The first loop of handlerAddOrUpdate.
handlerAddOrUpdate(w) ==
    LET new == [l \in Lb |-> IF listed[w][l] = Absent THEN Absent
                             ELSE Parse(l, listed[w][l])]
        Changed(l) == new[l] \notin {Absent, elem[l]}
    IN
    /\ pc[w] = "listed"
    /\ todo' = [todo EXCEPT ![w] = [l \in Lb |-> IF Changed(l) THEN new[l] ELSE Absent]]
    /\ elem' = [l \in Lb |-> IF Changed(l) THEN new[l] ELSE elem[l]]
    /\ pc' = [pc EXCEPT ![w] = "config"]
    /\ UNCHANGED <<lbs, files, hup, running, used, alive, pending, listed, dels,
                   needReload, render, counters>>

GetConfigFilePath(protocol) == IF protocol = "HTTP" THEN "conf.d" ELSE "stream.conf.d"

\* Seeded fault: the last service alone decides about a reload.
Collect_Last(w) == needReload' = [needReload EXCEPT ![w] = files' # files]

\* A reload is needed if any service has changed a file.
Collect(w) == needReload' = [needReload EXCEPT ![w] = @ \/ files' # files]

\* ConfigService up to the execution of the template, behind what tmplBuf has.
ConfigService(w, l) ==
    /\ pc[w] = "config"
    /\ todo[w][l] # Absent
    /\ buf' = Append(buf, todo[w][l])
    /\ content' = [content EXCEPT ![w] = buf']
    /\ cur' = [cur EXCEPT ![w] = l]
    /\ pc' = [pc EXCEPT ![w] = "render"]
    /\ UNCHANGED <<lbs, elem, files, hup, running, used, alive, pending, listed, todo, dels,
                   needReload, counters>>

(***************************************************************************)
(* What is written.  content is a part of tmplBuf: when that was used by   *)
(* another watcher since, it is a part of any text, or all of the text of  *)
(* any load balancer.                                                      *)
(***************************************************************************)
Rendered == {Parse(l, json) : l \in Lb, json \in Requests} \ {Absent}
Text(w)  == {content[w]} \union (IF buf = content[w] THEN {}
                                 ELSE {<<>>, <<Torn>>} \union {<<n>> : n \in Rendered})

\* Seeded fault: tmplBuf is not emptied.
Reset_Kept == buf

Reset == <<>>

\* The rest of Render: the file of the protocol is written if it differs.
Render(w) ==
    LET l == cur[w]
        d == GetConfigFilePath(todo[w][l].Protocol)
    IN
    /\ pc[w] = "render"
    /\ \E text \in Text(w) : files' = [files EXCEPT ![d][l] = text]
    /\ used' = [used EXCEPT ![l] = @ \union {d}]
    /\ Collect(w)
    /\ buf' = Reset
    /\ content' = [content EXCEPT ![w] = <<>>]
    /\ todo' = [todo EXCEPT ![w][l] = Absent]
    /\ cur' = [cur EXCEPT ![w] = Absent]
    /\ pc' = [pc EXCEPT ![w] = "config"]
    /\ UNCHANGED <<lbs, elem, hup, running, alive, pending, listed, dels, counters>>

\* The first loop of handlerDelete.
handlerDelete(w) ==
    LET gone == {l \in Lb : elem[l] # Absent /\ listed[w][l] = Absent} IN
    /\ pc[w] = "config"
    /\ todo[w] = Nothing
    /\ dels' = [dels EXCEPT ![w] = gone]
    /\ elem' = [l \in Lb |-> IF l \in gone THEN Absent ELSE elem[l]]
    /\ pc' = [pc EXCEPT ![w] = "delete"]
    /\ UNCHANGED <<lbs, files, hup, running, used, alive, pending, listed, todo,
                   needReload, render, counters>>

\* DeleteService looks into conf.d first and stops at the first file.
FirstFound(l) ==
    IF files["conf.d"][l] # Absent THEN {"conf.d"}
    ELSE {d \in Dir : files[d][l] # Absent}

DeleteService(w, l) ==
    /\ pc[w] = "delete"
    /\ l \in dels[w]
    /\ files' = [d \in Dir |-> IF d \in FirstFound(l)
                               THEN [files[d] EXCEPT ![l] = Absent] ELSE files[d]]
    /\ Collect(w)
    /\ dels' = [dels EXCEPT ![w] = @ \ {l}]
    /\ UNCHANGED <<lbs, elem, hup, running, used, alive, pending, pc, listed, todo,
                   render, counters>>

-----------------------------------------------------------------------------
(* Reload, and nginx as the commands show it.                              *)

(***************************************************************************)
(* Text of nginxTmpl that nginx can load in a directory.  The template     *)
(* ends the line of a strategy without a semicolon, so least_conn takes    *)
(* the next directive for an argument.  An upstream needs a server and a   *)
(* name of its own, proxy_pass an upstream that exists, an HTTP location a *)
(* path of its own, and a stream server one proxy_pass.                    *)
(***************************************************************************)
TextLoads(d, n) ==
    /\ n # Torn
    /\ GetConfigFilePath(n.Protocol) = d
    /\ \A i \in DOMAIN n.Pools :
          /\ n.Pools[i].Strategy = "round_robin"
          /\ n.Pools[i].Servers # <<>>
          /\ \A j \in DOMAIN n.Pools : n.Pools[j].Name = n.Pools[i].Name => j = i
    /\ \A i, j \in DOMAIN n.Locations :
          /\ HasPool(n, n.Locations[i])
          /\ d = "conf.d" /\ n.Locations[j].URIPath = n.Locations[i].URIPath => j = i
    /\ d = "stream.conf.d" => Len(n.Locations) = 1

\* The texts of a directory, and which object each was rendered from.
Texts(fs, d) ==
    UNION {{<<l, i>> : i \in DOMAIN fs[d][l]} : l \in {k \in Lb : fs[d][k] # Absent}}
From(fs, d, t) == fs[d][t[1]][t[2]]

Upstreams(n) == {n.Pools[i].Name : i \in DOMAIN n.Pools}

\* The line "listen", which has the option reuseport.
Listen(n) == <<n.VIP, n.Port, n.Protocol = "UDP">>

\* nginx -t: every text loads, and no two of a directory define the same
\* upstream or listen on the same address and port.
Test(fs) ==
    \A d \in Dir : \A t \in Texts(fs, d) :
        /\ TextLoads(d, From(fs, d, t))
        /\ \A u \in Texts(fs, d) \ {t} :
              /\ From(fs, d, u) # Torn
              /\ Upstreams(From(fs, d, u)) \intersect Upstreams(From(fs, d, t)) = {}
              /\ Listen(From(fs, d, u)) # Listen(From(fs, d, t))

CommandFails ==
    /\ faults < MaxFaults
    /\ faults' = faults + 1

Done(w) == pc' = [pc EXCEPT ![w] = "idle"]

\* The end of handlerEvent, and nginx -t of Reload.
CheckConfig(w) ==
    /\ pc[w] = "delete"
    /\ dels[w] = {}
    /\ needReload' = [needReload EXCEPT ![w] = FALSE]
    /\ \/ ~ needReload[w] /\ Done(w) /\ UNCHANGED faults
       \/ /\ needReload[w]
          /\ pc' = [pc EXCEPT ![w] = IF Test(files) THEN "reload" ELSE "idle"]
          /\ UNCHANGED faults
       \/ needReload[w] /\ CommandFails /\ Done(w)
    /\ UNCHANGED <<lbs, elem, files, hup, running, used, alive, pending, listed, todo, dels,
                   render, changes, crashes>>

\* nginx -s reload; a failure is logged and not tried again.
Reload(w) ==
    /\ pc[w] = "reload"
    /\ Done(w)
    /\ \/ hup' = TRUE /\ UNCHANGED faults
       \/ CommandFails /\ UNCHANGED hup
    /\ UNCHANGED <<lbs, elem, files, running, used, alive, pending, listed, todo, dels,
                   needReload, render, changes, crashes>>

\* nginx reads the files; what it cannot load it does not run.
ReadFiles ==
    /\ hup
    /\ hup' = FALSE
    /\ running' = IF Test(files) THEN files ELSE running
    /\ UNCHANGED <<lbs, elem, files, used, consumer, counters>>

\* The process dies and starts again; nginx goes on.
Crash ==
    /\ crashes < MaxCrashes
    /\ crashes' = crashes + 1
    /\ elem' = Nothing
    /\ alive' = {}
    /\ pending' = Each(FALSE)
    /\ pc' = Each("idle")
    /\ listed' = Each(Nothing)
    /\ todo' = Each(Nothing)
    /\ buf' = <<>>
    /\ cur' = Each(Absent)
    /\ content' = Each(<<>>)
    /\ dels' = Each({})
    /\ needReload' = Each(FALSE)
    /\ UNCHANGED <<lbs, files, hup, running, used, changes, faults>>

-----------------------------------------------------------------------------
Step(w) ==
    \/ List(w) \/ handlerAddOrUpdate(w) \/ handlerDelete(w)
    \/ Render(w) \/ CheckConfig(w) \/ Reload(w)
    \/ \E l \in Lb : ConfigService(w, l) \/ DeleteService(w, l)

Next ==
    \/ \E l \in Lb, v \in Requests \union {Absent} : Change(l, v)
    \/ \E w \in Watcher : Run(w) \/ Step(w)
    \/ ReadFiles \/ Crash

Spec == Init /\ [][Next]_vars

-----------------------------------------------------------------------------
(* Properties.                                                             *)

\* What Parse leaves of an object.
Accepted == {n \in Nginx : NginxValidate(n)}

\* The texts of the renderings a file or a buffer is made of.
Renderings == Seq(Accepted)
Written    == Seq(Accepted \union {Torn})

TypeOK ==
    /\ lbs \in [Lb -> Requests \union {Absent}]
    /\ elem \in [Lb -> Accepted \union {Absent}]
    /\ files \in [Dir -> [Lb -> Written \union {Absent}]]
    /\ running \in [Dir -> [Lb -> Written \union {Absent}]]
    /\ hup \in BOOLEAN
    /\ used \in [Lb -> SUBSET Dir]
    /\ buf \in Renderings
    /\ content \in [Watcher -> Renderings]
    /\ cur \in [Watcher -> Lb \union {Absent}]
    /\ alive \subseteq Watcher
    /\ pending \in [Watcher -> BOOLEAN]
    /\ pc \in [Watcher ->
                {"idle", "listed", "config", "render", "delete", "reload"}]
    /\ \A w \in Watcher : pc[w] = "render" <=> cur[w] \in Lb
    /\ listed \in [Watcher -> [Lb -> Requests \union {Absent}]]
    /\ todo \in [Watcher -> [Lb -> Accepted \union {Absent}]]
    /\ dels \in [Watcher -> SUBSET Lb]
    /\ needReload \in [Watcher -> BOOLEAN]
    /\ {changes, faults, crashes} \subseteq Nat

(***************************************************************************)
(* While the process lives and no command fails, no change of the files is *)
(* forgotten, though nothing is tried again: when the watchers are done,   *)
(* nginx runs the files, or they are such that it cannot load them.        *)
(***************************************************************************)
RunsFiles ==
    /\ crashes = 0 /\ faults = 0
    /\ ~ hup
    /\ \A w \in Watcher : pc[w] \in {"idle", "listed"}
    => running = files \/ ~ Test(files)

\* A load balancer that has only been in one directory.
Unmoved(l) == \A d, e \in used[l] : d = e

(***************************************************************************)
(* When a process that has had one role has handled its events, the        *)
(* directories say what etcd does: a load balancer that is accepted has    *)
(* its file, also after a crash at any step, and one that is deleted has   *)
(* none, unless the process was down or the protocol had moved it from one *)
(* directory to the other.                                                 *)
(***************************************************************************)
FilesConverge ==
    (\E w \in Watcher : alive = {w} /\ pc[w] = "idle" /\ ~ pending[w])
    => \A l \in Lb :
          IF lbs[l] = Absent
          THEN Unmoved(l) /\ crashes = 0 => \A d \in Dir : files[d][l] = Absent
          ELSE LET n == Parse(l, lbs[l])
               IN  n # Absent => files[GetConfigFilePath(n.Protocol)][l] = <<n>>

=============================================================================
