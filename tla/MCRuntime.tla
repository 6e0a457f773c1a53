------------------------------ MODULE MCRuntime ------------------------------
(* Runtime on a small instance. *)
EXTENDS Runtime, TLC

Older == {"messages", "history", "sessions.sqlite3", "tasks.json", "tasks.sqlite3"}
Found(good, bad) ==
  [f \in Older \cup {"runtime.sqlite3"} |->
     IF f \in good THEN "good" ELSE IF f \in bad THEN "bad" ELSE "absent"]

\* Nothing; everything, with one file that cannot be read; the newest JSON;
\* the oldest databases; and a catalog whose table of workspaces is older.
MCSituations ==
  {Found({}, {}),
   Found(Older \ {"history"}, {"history"}),
   Found({"messages", "sessions.sqlite3", "tasks.sqlite3"}, {}),
   Found({"tasks.sqlite3"}, {"sessions.sqlite3", "tasks.json"}),
   Found({"messages", "history"}, {"sessions.sqlite3", "tasks.sqlite3"}),
   [Found({"sessions.sqlite3"}, {}) EXCEPT !["runtime.sqlite3"] = "old"]}

Interchangeable == Permutations(Version) \cup Permutations(Operator)
=============================================================================
