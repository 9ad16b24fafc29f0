------------------------------- MODULE Command -------------------------------
(***************************************************************************)
(* The run command of the two clients (cmd/cadence_client_main/main.go,    *)
(* cmd/temporal_client_main/main.go), from its flags to the arguments it   *)
(* starts a workflow with.                                                 *)
(*                                                                         *)
(* Flags are a record: package is "stdin", "directory" or "file", readable *)
(* tells whether it can be read or built, args and kwargs are JSON trees,  *)
(* env is a sequence of texts <<key, value>>, or <<key>> without a "=".     *)
(* A flag that is not given is Unset.                                      *)
(***************************************************************************)
EXTENDS Codec

Unset == <<"unset">>
FlagOr(value, default) == IF value = Unset THEN default ELSE value

\* The package of Cadence's command.
ReadPackageCadence(f) == IF f.readable THEN Bytes(Plain) ELSE BrokenTree

\* The package of Temporal's command.  The err of a file that cannot be read is
\* that of the "else if", which no one looks at.
ReadPackageTemporal(f) ==
  CASE f.readable -> Bytes(Plain)
    [] ~f.readable /\ f.package = "file" -> Nil
    [] OTHER -> BrokenTree

\* A directory is packaged from the file, which is then named within it.
EntryFile(f) ==
  IF f.file = Unset THEN BrokenTree
  ELSE Str(IF f.package = "directory" THEN <<"relative", f.file>> ELSE <<"path", f.file>>)

EnvKeys(f) == {f.env[i][1] : i \in DOMAIN f.env}

\* The environment in which the text of key k is the one at at[k].
EnvironOf(f, at) ==
  CASE \E i \in DOMAIN f.env : Len(f.env[i]) < 2 -> BrokenTree
    [] f.env = <<>> -> Nil
    [] OTHER -> [p \in {<<>>} \cup {<<Entry(k)>> : k \in EnvKeys(f)} |->
                   IF p = <<>> THEN Dict ELSE <<"str", f.env[at[p[1][2]]][2]>>]

\* Variant, not the code's: the first value given for a key stays.
EnvironFirst(f) ==
  EnvironOf(f, [k \in EnvKeys(f) |-> CHOOSE i \in DOMAIN f.env :
                  f.env[i][1] = k /\ \A j \in 1..(i - 1) : f.env[j][1] # k])

\* The environment: nil, or a dict in which the last value of a key stays.
Environ(f) ==
  EnvironOf(f, [k \in EnvKeys(f) |-> CHOOSE i \in DOMAIN f.env :
                  f.env[i][1] = k /\ \A j \in (i + 1)..Len(f.env) : f.env[j][1] # k])

\* Cadence's command logs the key and the value of each keyword argument, and
\* panics on a shorter one.
KeywordsCadence(f) ==
  LET ks == KeywordsOf(f.kwargs)
  IN IF Root(ks) = Keywords /\ \E p \in DOMAIN ks : Len(p) = 1 /\ Append(p, Index(2)) \notin DOMAIN ks
     THEN BrokenTree ELSE ks

\* What the commands hand to Run of their client, any part broken if they fail.
CadenceArguments(f) ==
  <<ReadPackageCadence(f), EntryFile(f), Str(FlagOr(f.function, <<"main">>)),
    TupleOf(f.args), KeywordsCadence(f), Environ(f)>>

TemporalArguments(f) ==
  <<ReadPackageTemporal(f), EntryFile(f), Str(FlagOr(f.function, <<"main">>)),
    TupleOf(f.args), KeywordsOf(f.kwargs), Environ(f)>>

Arguments(backend, f) ==
  IF backend = "cadence" THEN CadenceArguments(f) ELSE TemporalArguments(f)

\* Run of the clients: the options of the workflow.
StartOptionsCadence(f) == [queue |-> FlagOr(f.queue, <<"default">>), timeouts |-> "10y"]
StartOptionsTemporal(f) == [queue |-> FlagOr(f.queue, <<"default">>), timeouts |-> "10y"]
StartOptions(backend, f) ==
  IF backend = "cadence" THEN StartOptionsCadence(f) ELSE StartOptionsTemporal(f)

\* The parameters of Service.Run.
RunParams == <<"bytes", "string", "string", "tuple", "keywords", "dict">>
=============================================================================
