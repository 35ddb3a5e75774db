--------------------------- MODULE RuntimeSetupProofs ---------------------------
(***************************************************************************)
(* What TLAPS proves of RuntimeSetup, for any environments, handlers,      *)
(* directories and spellings of a debugger, and any number of requests and *)
(* changes between them.                                                   *)
(***************************************************************************)
EXTENDS RuntimeSetup, FiniteSetTheorems, TLAPS

USE SetupAssumption

Known == Python \cup Node

(* A key of the cache holds all of a function that New reads but for its   *)
(* directory, which the hash holds: both determine what container can come *)
(* of it (the order of a map's iteration is all they leave open).          *)
Made(key, hash) ==
  IF Asserted(key, key.debugger)
  THEN {[image |-> key.runtime, code |-> hash,
         handler |-> Handler(key, environ), environ |-> environ,
         debugger |-> key.debugger,
         attach |-> Attach([dir |-> hash[1]], key.debugger)] : environ \in Environs(key, key.env)}
  ELSE {Panic}

LEMMA Determined ==
  ASSUME NEW fn, NEW env, NEW dbg
  PROVE  New(fn, env, dbg) = Made(RunnerKey(fn, env, dbg), HashDir(fn.dir))
<1> DEFINE key == RunnerKey(fn, env, dbg)
<1>1. /\ key.runtime = fn.runtime /\ key.handler = fn.handler
      /\ key.env = env /\ key.debugger = dbg
  BY DEF RunnerKey
<1>2. Asserted(key, dbg) <=> Asserted(fn, dbg)
  BY <1>1 DEF Asserted
<1>3. Environs(key, env) = Environs(fn, env)
  BY <1>1 DEF Environs
<1>4. \A environ : Handler(key, environ) = Handler(fn, environ)
  BY <1>1 DEF Handler
<1>5. Attach([dir |-> HashDir(fn.dir)[1]], dbg) = Attach(fn, dbg)
  BY DEF Attach, HashDir
<1> DEFINE hash == HashDir(fn.dir)
           Of(environ) == [image |-> fn.runtime, code |-> <<fn.dir, disk[fn.dir]>>,
                           handler |-> Handler(fn, environ), environ |-> environ,
                           debugger |-> dbg, attach |-> Attach(fn, dbg)]
           By(environ) == [image |-> key.runtime, code |-> hash,
                           handler |-> Handler(key, environ), environ |-> environ,
                           debugger |-> key.debugger,
                           attach |-> Attach([dir |-> hash[1]], key.debugger)]
<1>6. ASSUME NEW environ PROVE Of(environ) = By(environ)
  <2>1. hash = <<fn.dir, disk[fn.dir]>> /\ Handler(key, environ) = Handler(fn, environ)
    BY <1>4 DEF HashDir
  <2> HIDE DEF key, hash
  <2> QED
    BY <1>1, <1>5, <2>1 DEF hash
<1>7. New(fn, env, dbg) = IF Asserted(fn, dbg) THEN {Of(environ) : environ \in Environs(fn, env)} ELSE {Panic}
  BY DEF New
<1>8. Made(key, hash) =
        IF Asserted(key, key.debugger) THEN {By(environ) : environ \in Environs(key, key.env)} ELSE {Panic}
  BY DEF Made
<1> HIDE DEF key, hash, Of, By
<1>9. {Of(environ) : environ \in Environs(fn, env)} = {By(environ) : environ \in Environs(fn, env)}
  BY <1>6
<1> QED
  BY <1>1, <1>2, <1>3, <1>7, <1>8, <1>9 DEF key, hash

-----------------------------------------------------------------------------
(* Every cached container is one that its key and its hash determine.      *)
CacheInv == \A key \in DOMAIN runners : runners[key].container \in Made(key, runners[key].hash)

(* A request was given the container of its own key and some hash, with    *)
(* the debugger of the template or none.                                   *)
GivenInv ==
  given # NotYet =>
    /\ \E r \in Resource : given.fn = Function(r)
    /\ given.fn.runtime \in Known
    /\ given.proxied \in Environments
    /\ given.debugger \in {None, given.fn.debugger}
    /\ \E hash : given.container \in
         Made(RunnerKey(given.fn, PrepareEnv(given.proxied, given.fn), given.debugger), hash)

SetupInv == resource \in Resource /\ proxied \in Environments /\ CacheInv /\ GivenInv

(* What Invoke does, in terms of the containers that are determined.       *)
LEMMA Invoked ==
  ASSUME CacheInv, Invoke, Function(resource).runtime \in Known
  PROVE  LET fn  == Function(resource)
             env == PrepareEnv(proxied, fn)
         IN  /\ CacheInv'
             /\ \E dbg \in {None, fn.debugger} :
                  \E container \in Made(RunnerKey(fn, env, dbg), HashDir(fn.dir)) :
                    Give(fn, dbg, container)
<1> DEFINE fn == Function(resource)
           env == PrepareEnv(proxied, fn)
           hash == HashDir(fn.dir)
           Key(dbg) == RunnerKey(fn, env, dbg)
           Start(dbg) == \E container \in New(fn, env, dbg) :
                           /\ Give(fn, dbg, container)
                           /\ runners' = With(Without(Key(fn.debugger)), Key(dbg),
                                              [hash |-> hash, container |-> container])
           Reuse(dbg) == Found(Key(dbg), hash) /\ Give(fn, dbg, runners[Key(dbg)].container)
<1>1. \E dbg \in {None, fn.debugger} :
        Start(dbg) \/ (Reuse(dbg) /\ runners' \in {runners, Without(Key(fn.debugger))})
  BY DEF Invoke, Known
<1>2. PICK dbg \in {None, fn.debugger} :
        Start(dbg) \/ (Reuse(dbg) /\ runners' \in {runners, Without(Key(fn.debugger))})
  BY <1>1
<1>3. New(fn, env, dbg) = Made(Key(dbg), hash)
  BY Determined
<1>4. /\ DOMAIN Without(Key(fn.debugger)) \subseteq DOMAIN runners
      /\ \A k \in DOMAIN Without(Key(fn.debugger)) : Without(Key(fn.debugger))[k] = runners[k]
  BY DEF Without
<1> HIDE DEF fn, env, hash, Key
<1>5. CASE Start(dbg)
  <2>1. PICK container \in Made(Key(dbg), hash) :
          /\ Give(fn, dbg, container)
          /\ runners' = With(Without(Key(fn.debugger)), Key(dbg), [hash |-> hash, container |-> container])
    BY <1>3, <1>5
  <2> DEFINE rest == Without(Key(fn.debugger))
             entry == [hash |-> hash, container |-> container]
  <2>2. entry.hash = hash /\ entry.container \in Made(Key(dbg), hash)
    OBVIOUS
  <2>3. runners' = With(rest, Key(dbg), entry)
    BY <2>1
  <2> HIDE DEF rest, entry
  <2>4. ASSUME NEW k \in DOMAIN runners' PROVE runners'[k].container \in Made(k, runners'[k].hash)
    <3>1. CASE k = Key(dbg)
      BY <2>2, <2>3, <3>1 DEF With
    <3>2. CASE k # Key(dbg)
      <4>1. k \in DOMAIN rest /\ runners'[k] = rest[k]
        BY <2>3, <2>4, <3>2 DEF With
      <4>2. k \in DOMAIN runners /\ runners'[k] = runners[k]
        BY <1>4, <4>1 DEF rest
      <4> QED
        BY <4>2 DEF CacheInv
    <3> QED
      BY <3>1, <3>2
  <2>5. CacheInv'
    BY <2>4 DEF CacheInv
  <2> QED
    BY <2>1, <2>5 DEF fn, env, hash, Key
<1>6. CASE Reuse(dbg) /\ runners' \in {runners, Without(Key(fn.debugger))}
  <2>1. CacheInv'
    BY <1>4, <1>6 DEF CacheInv
  <2>2. runners[Key(dbg)].container \in Made(Key(dbg), hash)
    BY <1>6 DEF Found, CacheInv
  <2> QED
    BY <1>6, <2>1, <2>2 DEF fn, env, hash, Key
<1> QED
  BY <1>2, <1>5, <1>6

LEMMA SetupStep == SetupInv /\ [Next]_vars => SetupInv'
<1> SUFFICES ASSUME SetupInv, [Next]_vars PROVE SetupInv'
  OBVIOUS
<1>1. CASE Change
  <2>1. UNCHANGED <<runners, given>> /\ proxied' \in Environments
    BY <1>1 DEF Change, SetupInv
  <2>2. resource' \in Resource
    <3>1. CASE resource' = resource
      BY <3>1 DEF SetupInv
    <3>2. CASE resource' \in Edited(resource)
      <4> DEFINE Uri == {[resource EXCEPT !.uri = x] : x \in Dirs \cup {None}}
                 Runtime == {[resource EXCEPT !.runtime = x] : x \in Runtimes}
                 Hand == {[resource EXCEPT !.handler = x] : x \in Handlers}
                 Vars == {[resource EXCEPT !.variables = x] : x \in Environments}
                 Debug == {[resource EXCEPT !.debugger = x] : x \in Spellings}
      <4>1. Uri \subseteq Resource /\ Runtime \subseteq Resource
        BY DEF SetupInv, Resource
      <4>2. Hand \subseteq Resource /\ Vars \subseteq Resource /\ Debug \subseteq Resource
        BY DEF SetupInv, Resource
      <4>3. resource' \in UNION {Uri, Runtime, Hand, Vars, Debug}
        BY <3>2, Zenon DEF Edited
      <4> HIDE DEF Uri, Runtime, Hand, Vars, Debug
      <4> QED
        BY <4>1, <4>2, <4>3
    <3> QED
      BY <1>1, <3>1, <3>2 DEF Change
  <2> QED
    BY <2>1, <2>2 DEF SetupInv, CacheInv, GivenInv, Known
<1>2. CASE Invoke /\ Function(resource).runtime \in Known
  <2>1. UNCHANGED <<resource, proxied>> /\ resource \in Resource /\ proxied \in Environments
    BY <1>2 DEF Invoke, SetupInv
  <2> DEFINE fn == Function(resource)
             env == PrepareEnv(proxied, fn)
  <2>2. PICK dbg \in {None, fn.debugger} :
          \E container \in Made(RunnerKey(fn, env, dbg), HashDir(fn.dir)) : Give(fn, dbg, container)
    BY <1>2, Invoked DEF SetupInv
  <2>3. CacheInv'
    BY <1>2, Invoked DEF SetupInv
  <2> HIDE DEF fn
  <2>4. /\ given'.fn = fn /\ given'.proxied = proxied /\ given'.debugger = dbg
        /\ given'.container \in Made(RunnerKey(fn, env, dbg), HashDir(fn.dir))
    BY <2>2 DEF Give
  <2>5. GivenInv'
    BY <1>2, <2>1, <2>4 DEF GivenInv, fn, Known
  <2> QED
    BY <2>1, <2>3, <2>5 DEF SetupInv
<1>3. CASE Invoke /\ Function(resource).runtime \notin Known
  <2>1. UNCHANGED <<resource, proxied, runners, given>>
    BY <1>3 DEF Invoke, Known
  <2> QED
    BY <2>1 DEF SetupInv, CacheInv, GivenInv
<1>4. CASE UNCHANGED vars
  BY <1>4 DEF vars, SetupInv, CacheInv, GivenInv
<1> QED
  BY <1>1, <1>2, <1>3, <1>4 DEF Next, Idle

LEMMA SetupHolds == Spec => []SetupInv
<1>1. Init => SetupInv
  BY DEF Init, SetupInv, CacheInv, GivenInv
<1> QED
  BY <1>1, SetupStep, PTL DEF Spec

-----------------------------------------------------------------------------
(* A request is given a container that does what one started for it now    *)
(* would do: reuse cannot be told from a new start.                        *)
THEOREM Transparency == Spec => Transparent
<1>1. SetupInv /\ [Next]_vars
        => [LET fn == Function(resource) IN
            calls' # calls /\ fn.runtime \in Python \cup Node =>
              given'.container \in New(fn, PrepareEnv(proxied, fn), given'.debugger)]_vars
  <2> DEFINE fn == Function(resource)
             env == PrepareEnv(proxied, fn)
  <2> SUFFICES ASSUME SetupInv, [Next]_vars, calls' # calls, fn.runtime \in Known
               PROVE  given'.container \in New(fn, env, given'.debugger)
    BY DEF Known
  <2>1. Invoke
    BY DEF Next, Change, Idle, vars
  <2>2. PICK dbg : \E container \in Made(RunnerKey(fn, env, dbg), HashDir(fn.dir)) :
                      Give(fn, dbg, container)
    BY <2>1, Invoked DEF SetupInv
  <2> HIDE DEF fn, env
  <2>3. given'.debugger = dbg /\ given'.container \in Made(RunnerKey(fn, env, dbg), HashDir(fn.dir))
    BY <2>2 DEF Give
  <2> QED
    BY <2>3, Determined
<1> QED
  BY SetupHolds, <1>1, PTL DEF Spec, Transparent

(* The parsers make of any spelling a debugger that the command line of    *)
(* the same runtime expects, or none.                                      *)
LEMMA Parsed ==
  ASSUME NEW r, Function(r).runtime \in Known, NEW dbg \in {None, Function(r).debugger}
  PROVE  Asserted(Function(r), dbg)
<1> DEFINE fn == Function(r)
<1>1. fn.runtime = r.runtime /\ fn.debugger = ParseDebugger(r.runtime, r.debugger)
  BY DEF Function
<1>2. CASE r.runtime \in Python
  <2>1. ParsePythonDebugger(r.debugger) \in {"pydevd", "ptvsd", None}
    BY DEF ParsePythonDebugger
  <2> QED
    BY <1>1, <1>2, <2>1 DEF Asserted, ParseDebugger
<1>3. CASE r.runtime \notin Python
  <2>1. ParseNodeDebugger(r.debugger) \in {"legacy", "inspector", None}
    BY DEF ParseNodeDebugger
  <2> QED
    BY <1>1, <1>3, <2>1 DEF Asserted, ParseDebugger, Known
<1> QED
  BY <1>2, <1>3

(* The environment of the last request, as prepareEnv left it.             *)
Env == PrepareEnv(given.proxied, given.fn)

(* What every request was given, as New made it.                           *)
LEMMA Equipped ==
  ASSUME SetupInv, given # NotYet
  PROVE  /\ given.container # Panic
         /\ given.container.environ \in Environs(given.fn, Env)
         /\ given.container.handler = Handler(given.fn, given.container.environ)
<1> DEFINE key == RunnerKey(given.fn, Env, given.debugger)
<1>1. PICK hash : given.container \in Made(key, hash)
  BY DEF SetupInv, GivenInv, Env
<1>2. Asserted(given.fn, given.debugger)
  BY Parsed DEF SetupInv, GivenInv
<1>3. /\ key.runtime = given.fn.runtime /\ key.handler = given.fn.handler
      /\ key.env = Env /\ key.debugger = given.debugger
  BY DEF RunnerKey
<1> HIDE DEF key
<1>4. Asserted(key, key.debugger) /\ Environs(key, Env) = Environs(given.fn, Env)
  BY <1>2, <1>3 DEF Asserted, Environs
<1>5. \A environ : Handler(key, environ) = Handler(given.fn, environ)
  BY <1>3 DEF Handler
<1>6. PICK environ \in Environs(key, Env) :
        /\ given.container.handler = Handler(key, environ)
        /\ given.container.environ = environ
        /\ "image" \in DOMAIN given.container
  BY <1>1, <1>3, <1>4 DEF Made
<1>7. "image" \notin DOMAIN Panic
  BY DEF Panic
<1> QED
  BY <1>4, <1>5, <1>6, <1>7

(* What kind of thing the function of the last request is.                 *)
LEMMA GivenType ==
  ASSUME SetupInv, given # NotYet
  PROVE  /\ given.fn.runtime \in Known /\ given.proxied \in Environments
         /\ given.fn.handler \in Handlers /\ given.fn.variables \in Environments
<1>1. PICK r \in Resource : given.fn = Function(r)
  BY DEF SetupInv, GivenInv
<1>2. r.handler \in Handlers /\ r.variables \in Environments
  BY DEF Resource
<1> QED
  BY <1>1, <1>2 DEF SetupInv, GivenInv, Function

(* No request panics on its debugger, whatever the template says.          *)
THEOREM AssertionsHold == Spec => []NoAssertion
<1>1. SetupInv => NoAssertion
  BY Equipped DEF NoAssertion
<1> QED
  BY SetupHolds, <1>1, PTL

-----------------------------------------------------------------------------
(* What prepareEnv makes of the two environments.                          *)
LEMMA Merged ==
  ASSUME SetupInv, given # NotYet
  PROVE  /\ Env \in [DOMAIN Env -> Seq(STRING)] /\ DOMAIN Env \subseteq Names
         /\ DOMAIN Env = DOMAIN given.fn.variables \cup (DOMAIN given.proxied \ Cleaned)
         /\ \A n \in DOMAIN given.fn.variables : Env[n] = given.fn.variables[n]
         /\ \A n \in DOMAIN given.proxied \ (Cleaned \cup DOMAIN given.fn.variables) :
              Env[n] = given.proxied[n]
<1> DEFINE upper == given.fn.variables
           lower == [n \in DOMAIN given.proxied \ Cleaned |-> given.proxied[n]]
<1>1. /\ upper \in [DOMAIN upper -> Seq(STRING)] /\ lower \in [DOMAIN lower -> Seq(STRING)]
      /\ DOMAIN upper \subseteq Names /\ DOMAIN lower \subseteq Names
  BY GivenType
<1>2. DOMAIN lower = DOMAIN given.proxied \ Cleaned /\ \A n \in DOMAIN lower : lower[n] = given.proxied[n]
  OBVIOUS
<1>3. Env = [n \in DOMAIN upper \cup DOMAIN lower |-> IF n \in DOMAIN upper THEN upper[n] ELSE lower[n]]
  BY DEF Env, PrepareEnv, Over
<1> HIDE DEF lower
<1> QED
  BY <1>1, <1>2, <1>3

(* The environment file has one line for each variable, in some order, and *)
(* then that of the handler.                                               *)
Listed(file, env, handler, n, o) ==
  /\ o \in [1 .. n -> DOMAIN env]
  /\ \A k \in DOMAIN env : \E i \in 1 .. n : o[i] = k
  /\ \A i, j \in 1 .. n : o[i] = o[j] => i = j
  /\ DOMAIN file = 1 .. n + 1
  /\ \A i \in 1 .. n : file[i] = Line(o[i], env[o[i]])
  /\ file[n + 1] = Line("_HANDLER", handler)

LEMMA Lines ==
  ASSUME NEW env, DOMAIN env \subseteq Names, NEW handler, NEW file \in EnvFile(env, handler)
  PROVE  \E n \in Nat : \E o : Listed(file, env, handler, n, o)
<1>1. PICK o \in Orders(DOMAIN env) :
        file = Append([i \in DOMAIN o |-> Line(o[i], env[o[i]])], Line("_HANDLER", handler))
  BY DEF EnvFile
<1> DEFINE n == Cardinality(DOMAIN env)
<1>2. n \in Nat
  BY FS_Subset, FS_CardinalityType
<1> HIDE DEF n
<1>3. /\ o \in [1 .. n -> DOMAIN env]
      /\ \A k \in DOMAIN env : \E i \in 1 .. n : o[i] = k
      /\ \A i, j \in 1 .. n : o[i] = o[j] => i = j
  BY DEF Orders, n
<1> DEFINE lines == [i \in 1 .. n |-> Line(o[i], env[o[i]])]
           All == {Line(x, env[x]) : x \in DOMAIN env} \cup {Line("_HANDLER", handler)}
<1>4. lines \in [1 .. n -> All]
  BY <1>3
<1>5. lines \in Seq(All) /\ Len(lines) = n
  BY <1>2, <1>4
<1>6. file = Append(lines, Line("_HANDLER", handler)) /\ Line("_HANDLER", handler) \in All
  BY <1>1, <1>3
<1>7. \A i \in 1 .. n : lines[i] = Line(o[i], env[o[i]])
  OBVIOUS
<1> HIDE DEF lines, All
<1>8. /\ DOMAIN file = 1 .. n + 1 /\ file[n + 1] = Line("_HANDLER", handler)
      /\ \A i \in 1 .. n : file[i] = lines[i]
  BY <1>2, <1>5, <1>6
<1>9. Listed(file, env, handler, n, o)
  BY <1>3, <1>7, <1>8 DEF Listed
<1> QED
  BY <1>2, <1>9

(* What a shell does with the assignments of a file to one name.           *)
LEMMA Written ==
  ASSUME NEW file, NEW k \in Names
  PROVE  /\ \A w \in Writes(file, k) : \E i \in DOMAIN file : \E j \in Assigning(file[i]) :
              w = <<i, j>> /\ Target(file[i], j) = k
         /\ \A i \in DOMAIN file : \A j \in Assigning(file[i]) :
              Target(file[i], j) = k => <<i, j>> \in Writes(file, k)
         /\ k \in DOMAIN Sourced(file) <=> Writes(file, k) # {}
         /\ k \in DOMAIN Sourced(file) =>
              Sourced(file)[k] = Result(file[Last(Writes(file, k))[1]], Last(Writes(file, k))[2])
<1> DEFINE All(i) == {<<i, j>> : j \in Assigning(file[i])}
<1>1. \A w : w \in Writes(file, k) <=>
        (\E i \in DOMAIN file : w \in All(i)) /\ Target(file[w[1]], w[2]) = k
  BY DEF Writes
<1>2. k \in DOMAIN Sourced(file) <=> Writes(file, k) # {}
  BY DEF Sourced
<1>3. k \in DOMAIN Sourced(file) =>
        Sourced(file)[k] = Result(file[Last(Writes(file, k))[1]], Last(Writes(file, k))[2])
  BY DEF Sourced
<1> QED
  BY <1>1, <1>2, <1>3

(* The shell leaves a plain value as it is.                                *)
LEMMA Delivered ==
  ASSUME NEW name, NEW v \in Seq(STRING), Plain(v)
  PROVE  Result(Line(name, v), 1) = v
<1>1. CASE v = <<>>
  BY <1>1 DEF Result, Line
<1>2. CASE v # <<>>
  <2>0. Len(v) = 1
    <3> DEFINE n == Len(v)
    <3>1. n \in Nat /\ n # 0
      BY <1>2
    <3>2. n <= 1
      BY DEF Plain
    <3> HIDE DEF n
    <3>3. n = 1
      BY <3>1, <3>2
    <3> QED
      BY <3>3 DEF n
  <2>1. Len(v) = 1 /\ v = <<v[1]>> /\ 1 \in DOMAIN v
    BY <2>0
  <2>2. Word(v[1]) = v[1]
    BY <2>1 DEF Word, Plain
  <2>3. Result(Line(name, v), 1) = <<Word(v[1])>>
    BY <1>2 DEF Result, Line
  <2> QED
    BY <2>1, <2>2, <2>3
<1> QED
  BY <1>1, <1>2

(* The last line decides what _HANDLER is, if the handler is one word.     *)
LEMMA HandlerLast ==
  ASSUME NEW env, DOMAIN env \subseteq Names, NEW handler \in Seq(STRING), Len(handler) = 1,
         Plain(handler), NEW file \in EnvFile(env, handler)
  PROVE  Sourced(file)["_HANDLER"] = handler
<1> DEFINE line == Line("_HANDLER", handler)
           writes == Writes(file, "_HANDLER")
<1>1. PICK n \in Nat : DOMAIN file = 1 .. n + 1 /\ file[n + 1] = line
  BY Lines DEF Listed
<1>2. Assigning(line) = {1} /\ Target(line, 1) = "_HANDLER"
  <2>1. line.name = "_HANDLER" /\ line.value = handler
    BY DEF Line
  <2> HIDE DEF line
  <2>2. Len(line.value) = 1 /\ 2 .. 1 = {}
    BY <2>1
  <2> QED
    BY <2>1, <2>2 DEF Assigning, Target
<1>3. <<n + 1, 1>> \in writes
  BY <1>1, <1>2, Written
<1>4. \A w \in writes : \E i \in 1 .. n + 1 : \E j \in Assigning(file[i]) :
        w = <<i, j>> /\ (i = n + 1 => j = 1)
  BY <1>1, <1>2, Written
<1> HIDE DEF writes
<1>5. Last(writes) = <<n + 1, 1>>
  <2> DEFINE Latest(w) == \A x \in writes : x[1] < w[1] \/ (x[1] = w[1] /\ x[2] <= w[2])
  <2>1. Latest(<<n + 1, 1>>)
    BY <1>4
  <2>2. ASSUME NEW w \in writes, Latest(w) PROVE w = <<n + 1, 1>>
    <3>1. PICK i \in 1 .. n + 1 : \E j : w = <<i, j>> /\ (i = n + 1 => j = 1)
      BY <1>4
    <3>2. PICK j : w = <<i, j>> /\ (i = n + 1 => j = 1)
      BY <3>1
    <3>3. n + 1 < i \/ n + 1 = i
      BY <1>3, <2>2, <3>2
    <3> QED
      BY <3>2, <3>3
  <2> HIDE DEF Latest
  <2>3. \A w \in writes : Latest(w) <=> w = <<n + 1, 1>>
    BY <2>1, <2>2
  <2>4. Last(writes) = CHOOSE w \in writes : Latest(w)
    BY DEF Last, Latest
  <2> QED
    BY <1>3, <2>3, <2>4
<1>6. "_HANDLER" \in DOMAIN Sourced(file) /\ Sourced(file)["_HANDLER"] = Result(line, 1)
  BY <1>1, <1>3, <1>5, Written DEF writes
<1> QED
  BY <1>6, Delivered

(* The container runs the handler of the template, whatever the            *)
(* environments of the proxy and of the template say of _HANDLER and       *)
(* whatever assignments a value hides, if handlers are plain words: those  *)
(* that Lambda allows are.                                                 *)
THEOREM RightHandler ==
  ASSUME \A h \in Handlers : Len(h) = 1 /\ Plain(h)
  PROVE  Spec => []HandlerRun
<1>1. SetupInv => HandlerRun
  <2> SUFFICES ASSUME SetupInv, given # NotYet PROVE given.container.handler = given.fn.handler
    BY DEF HandlerRun
  <2>1. /\ given.container.environ \in Environs(given.fn, Env)
        /\ given.container.handler = Handler(given.fn, given.container.environ)
    BY Equipped
  <2>2. given.fn.handler \in Seq(STRING) /\ Len(given.fn.handler) = 1 /\ Plain(given.fn.handler)
    BY GivenType
  <2>3. CASE given.fn.runtime \in Python
    BY <2>1, <2>3 DEF Handler
  <2>4. CASE given.fn.runtime \notin Python
    <3>1. PICK file \in EnvFile(Env, given.fn.handler) : given.container.environ = Sourced(file)
      BY <2>1, <2>4 DEF Environs
    <3>2. given.container.handler = given.container.environ["_HANDLER"]
      BY <2>1, <2>4 DEF Handler
    <3> QED
      BY <2>2, <3>1, <3>2, HandlerLast, Merged
  <2> QED
    BY <2>3, <2>4
<1> QED
  BY SetupHolds, <1>1, PTL

-----------------------------------------------------------------------------
(* A name that no later word assigns to is set by its own line, if it has  *)
(* one, and by nothing else.                                               *)
LEMMA Undisturbed ==
  ASSUME SetupInv, given # NotYet, NEW file \in EnvFile(Env, given.fn.handler),
         NEW k \in Names, k # "_HANDLER", ~Overwritten(k)
  PROVE  /\ k \in DOMAIN Sourced(file) <=> k \in DOMAIN Env
         /\ k \in DOMAIN Env /\ Plain(Env[k]) => Sourced(file)[k] = Env[k]
<1>1. /\ Env \in [DOMAIN Env -> Seq(STRING)] /\ DOMAIN Env \subseteq Names
      /\ \A x \in DOMAIN Env : Line(x, Env[x]) \in Configured
  BY Merged DEF Configured
<1>2. PICK n \in Nat : \E o : Listed(file, Env, given.fn.handler, n, o)
  BY <1>1, Lines
<1>3. PICK o : Listed(file, Env, given.fn.handler, n, o)
  BY <1>2
<1>4. \A i \in DOMAIN file : file[i] \in Configured \cup {Line("_HANDLER", given.fn.handler)}
  BY <1>1, <1>3 DEF Listed
<1>5. \A i \in 1 .. n : 1 \in Assigning(file[i]) /\ Target(file[i], 1) = o[i]
  <2>0. \A x, y : Line(x, y).name = x
    BY DEF Line
  <2>1. \A i \in 1 .. n : file[i].name = o[i]
    BY <1>3, <2>0 DEF Listed
  <2> QED
    BY <2>1 DEF Assigning, Target
<1>6. ASSUME NEW w \in Writes(file, k)
      PROVE  \E i \in 1 .. n : w = <<i, 1>> /\ o[i] = k
  <2>0. PICK i \in DOMAIN file :
          \E j \in Assigning(file[i]) : w = <<i, j>> /\ Target(file[i], j) = k
    BY <1>6, Written
  <2>1. PICK j \in Assigning(file[i]) : w = <<i, j>> /\ Target(file[i], j) = k
    BY <2>0
  <2>2. j = 1
    BY <1>4, <2>1 DEF Overwritten
  <2>3. file[i].name = k
    BY <2>1, <2>2 DEF Target
  <2>4. i # n + 1
    BY <1>3, <2>3 DEF Line, Listed
  <2> QED
    BY <1>3, <1>5, <2>1, <2>2, <2>4 DEF Listed
<1>7. CASE k \notin DOMAIN Env
  BY <1>3, <1>6, <1>7, Written DEF Listed
<1>8. CASE k \in DOMAIN Env
  <2>1. PICK i \in 1 .. n : o[i] = k
    BY <1>3, <1>8 DEF Listed
  <2>2. Writes(file, k) = {<<i, 1>>}
    <3>1. <<i, 1>> \in Writes(file, k)
      BY <1>3, <1>5, <2>1, Written DEF Listed
    <3>2. \A w \in Writes(file, k) : w = <<i, 1>>
      BY <1>3, <1>6, <2>1 DEF Listed
    <3> QED
      BY <3>1, <3>2
  <2>3. Last(Writes(file, k)) = <<i, 1>>
    <3>1. Last({<<i, 1>>}) \in {<<i, 1>>}
      BY DEF Last
    <3> QED
      BY <2>2, <3>1
  <2>4. k \in DOMAIN Sourced(file) /\ Sourced(file)[k] = Result(Line(k, Env[k]), 1)
    <3>1. k \in DOMAIN Sourced(file)
      BY <2>2, Written
    <3>2. Sourced(file)[k] = Result(file[Last(Writes(file, k))[1]], Last(Writes(file, k))[2])
      BY <3>1, Written
    <3>3. file[i] = Line(k, Env[k])
      BY <1>3, <2>1 DEF Listed
    <3> QED
      BY <2>3, <3>1, <3>2, <3>3
  <2> QED
    BY <1>1, <1>8, <2>4, Delivered
<1> QED
  BY <1>7, <1>8

(* The function sees the variables of the template, those of the proxy     *)
(* that are neither overridden nor the proxy's own, and none of the        *)
(* latter: in python with every value, in node with plain ones, unless a   *)
(* later word of some value assigns to the variable.                       *)
THEOREM RightEnvironment == Spec => []ConfiguredEnvironment
<1>1. SetupInv => ConfiguredEnvironment
  <2> SUFFICES ASSUME SetupInv, given # NotYet PROVE ConfiguredEnvironment
    BY DEF ConfiguredEnvironment
  <2>1. given.container.environ \in Environs(given.fn, Env)
    BY Equipped
  <2>2. /\ DOMAIN Env \subseteq Names
        /\ DOMAIN Env = DOMAIN given.fn.variables \cup (DOMAIN given.proxied \ Cleaned)
        /\ \A line \in Configured : line.name \in DOMAIN Env /\ line.value = Env[line.name]
    BY Merged DEF Configured, Line
  <2>3. PICK file \in EnvFile(Env, given.fn.handler) :
          /\ given.fn.runtime \in Python =>
               given.container.environ = Over(Env, With(Sourced(file), "_HANDLER", given.fn.handler))
          /\ given.fn.runtime \notin Python => given.container.environ = Sourced(file)
    BY <2>1 DEF Environs
  <2>4. ASSUME NEW line \in Configured, line.name # "_HANDLER",
               given.fn.runtime \in Python \/ (Plain(line.value) /\ ~Overwritten(line.name))
        PROVE  Sees(line)
    <3>1. CASE given.fn.runtime \in Python
      BY <2>2, <2>3, <3>1 DEF Sees, Over
    <3>2. CASE given.fn.runtime \notin Python
      BY <2>2, <2>3, <2>4, <3>2, Undisturbed DEF Sees
    <3> QED
      BY <3>1, <3>2
  <2>5. ASSUME NEW k \in Cleaned \ (DOMAIN given.fn.variables \cup {"_HANDLER"}), ~Overwritten(k)
        PROVE  k \notin DOMAIN given.container.environ
    <3>1. k \notin DOMAIN Env /\ k \notin DOMAIN Sourced(file)
      BY <2>2, <2>5, Undisturbed
    <3>2. CASE given.fn.runtime \in Python
      BY <2>3, <3>1, <3>2 DEF Over, With
    <3>3. CASE given.fn.runtime \notin Python
      BY <2>3, <3>1, <3>3
    <3> QED
      BY <3>2, <3>3
  <2> QED
    BY <2>4, <2>5 DEF ConfiguredEnvironment
<1> QED
  BY SetupHolds, <1>1, PTL
================================================================================
