------------------------------- MODULE Config -------------------------------
(***************************************************************************)
(* GlobalConfig: the static fields with their defaults, and InitConfig,    *)
(* which reads them from zinx_config.json, one field after the other.  A   *)
(* file is what json::parse makes of it: nothing, or a value for some of   *)
(* the keys.  A number is an integer, a text one of a few names, and false *)
(* and true are 0 and 1.                                                   *)
(***************************************************************************)
EXTENDS Integers, Sequences

CONSTANTS
  ConfigFiles,   \* what ./zinx_config.json and /etc/zinx_config.json may hold
  SizeT          \* how many values a size_t has (2^64 in the code)

Keys == <<"server_name", "version", "host", "port", "io_thread_num",
          "worker_thread_num", "max_task_queue_size">>
Key  == {Keys[i] : i \in 1 .. Len(Keys)}
Texts == {"server_name", "version", "host"}

Defaults == [server_name |-> "zinx-muduo", version |-> "V0.1",
             host |-> "127.0.0.1", port |-> 0, io_thread_num |-> 3,
             worker_thread_num |-> 5, max_task_queue_size |-> 30]

\* A JSON value, or "none" where the file does not have the key.
Kinds == {"none", "text", "number", "boolean"}

ASSUME ConfigAssumption ==
  /\ SizeT \in Nat \ {0}
  /\ \A f \in ConfigFiles :
       /\ f.state \in {"absent", "broken", "ok"}
       /\ \A k \in Key :
            /\ f.json[k].kind \in Kinds
            /\ f.json[k].kind = "number" => f.json[k].value \in Int
            /\ f.json[k].kind = "boolean" => f.json[k].value \in {0, 1}

\* io_thread_num is a number of threads: the cast to the int of SetIoThreadNum
\* keeps it.  What muduo makes of any other number is not part of the code.
ASSUME ThreadNumAssumption ==
  \A f \in ConfigFiles :
    f.json["io_thread_num"].kind = "number" =>
      f.json["io_thread_num"].value \in 0 .. SizeT - 1

VARIABLES
  local,    \* ./zinx_config.json
  etc,      \* /etc/zinx_config.json
  loading,  \* where InitConfig is: "open", "parse", "fields" or "loaded"
  configs,  \* the file it reads
  field,    \* index of the next key
  config    \* the fields of GlobalConfig

configVars == <<local, etc, loading, configs, field, config>>

ConfigInit ==
  /\ local \in ConfigFiles
  /\ etc \in ConfigFiles
  /\ loading = "open"
  /\ configs = local
  /\ field = 1
  /\ config = Defaults

\* Open the file of the working directory, or else the one in /etc.
OpenConfig ==
  /\ loading = "open"
  /\ configs' = IF local.state # "absent" THEN local ELSE etc
  /\ loading' = IF configs'.state = "absent" THEN "loaded" ELSE "parse"
  /\ UNCHANGED <<local, etc, field, config>>

\* json::parse; on an exception the defaults stay.
ParseConfig ==
  /\ loading = "parse"
  /\ loading' = IF configs.state = "broken" THEN "loaded" ELSE "fields"
  /\ UNCHANGED <<local, etc, configs, field, config>>

\* The conversion of a JSON value throws unless it has the type of the field.
\* The library takes a boolean for a number, but not where the field has the
\* library's own type of unsigned numbers, as size_t is and uint16_t is not.
Converts(k, v) ==
  \/ k \in Texts /\ v.kind = "text"
  \/ k \notin Texts /\ v.kind = "number"
  \/ k = "port" /\ v.kind = "boolean"

\* How many values a field for numbers has: port is a uint16_t, the others are
\* size_t.
Width(k) == IF k = "port" THEN 65536 ELSE SizeT

\* The conversion keeps as many low bits as the field has.
Converted(k, v) == IF k \in Texts THEN v.value ELSE v.value % Width(k)

NextField ==
  /\ field' = field + 1
  /\ loading' = IF field = Len(Keys) THEN "loaded" ELSE "fields"

\* Mutant: the first field that fails ends the loading.
ParseUntilFailure ==
  LET k == Keys[field] v == configs.json[k] IN
  /\ loading = "fields"
  /\ IF v.kind = "none" \/ Converts(k, v)
     THEN NextField ELSE loading' = "loaded" /\ UNCHANGED field
  /\ config' = IF Converts(k, v) THEN [config EXCEPT ![k] = Converted(k, v)] ELSE config
  /\ UNCHANGED <<local, etc, configs>>

\* parseConfigValue(key, configVariable)
ParseConfigValue ==
  LET k == Keys[field] v == configs.json[k] IN
  /\ loading = "fields"
  /\ NextField
  /\ config' = IF Converts(k, v) THEN [config EXCEPT ![k] = Converted(k, v)] ELSE config
  /\ UNCHANGED <<local, etc, configs>>

InitConfig == OpenConfig \/ ParseConfig \/ ParseConfigValue

\* The number from 0 to width - 1 that a number in the file stands for.
Wrapped(value, width) == CHOOSE n \in 0 .. width - 1 : (value - n) % width = 0

\* What the field of key k has to be for file f.
Expected(f, k) ==
  LET v == f.json[k] IN
  CASE f.state # "ok"                 -> Defaults[k]
    [] f.state = "ok" /\ k \in Texts /\ v.kind = "text" -> v.value
    [] f.state = "ok" /\ k = "port" /\ v.kind \in {"number", "boolean"} ->
         Wrapped(v.value, 65536)
    [] f.state = "ok" /\ k \notin Texts \cup {"port"} /\ v.kind = "number" ->
         Wrapped(v.value, SizeT)
    [] OTHER -> Defaults[k]

\* A field that is missing or of the wrong type keeps its own default and
\* costs no other field its value (ZConfig.cpp:56 "will use default config for
\* this field"); the file in /etc counts only without one in the working
\* directory; a number always fits its field, 16 bits for the port.
FieldsIndependent ==
  loading = "loaded" =>
    \A k \in Key :
      config[k] = Expected(IF local.state = "absent" THEN etc ELSE local, k)
=============================================================================
