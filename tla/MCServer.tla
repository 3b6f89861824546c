------------------------------ MODULE MCServer ------------------------------
(***************************************************************************)
(* Small instances of Server: configuration files with a missing field, a  *)
(* field of the wrong type, a port of more than 16 bits, a negative number *)
(* and booleans, and zero to two I/O threads.                              *)
(***************************************************************************)
EXTENDS ServerInvariant

None      == [kind |-> "none"]
Text(s)   == [kind |-> "text", value |-> s]
Number(n) == [kind |-> "number", value |-> n]
True      == [kind |-> "boolean", value |-> 1]

File(host, port, io_threads, workers) ==
  [state |-> "ok",
   json |-> [server_name |-> Text("mmo"), version |-> None, host |-> host,
             port |-> port, io_thread_num |-> io_threads,
             worker_thread_num |-> workers, max_task_queue_size |-> None]]

Empty == [k \in Key |-> None]

Files ==
  {[state |-> "absent", json |-> Empty], [state |-> "broken", json |-> Empty],
   File(Text("0.0.0.0"), Number(8999), Number(0), Number(0)),
   File(Number(0), Number(65537), Number(2), True),
   File(None, Text("http"), Number(1), Number(-1)),
   File(True, True, Number(0), Text("all"))}

\* Files that ask for one or two I/O threads.
ThreadedFiles ==
  {File(Text("0.0.0.0"), Number(8999), Number(1), Number(0)),
   File(Number(0), Number(65537), Number(2), True)}
=============================================================================
