----------------------------- MODULE Processes -----------------------------
(***************************************************************************)
(* The eight process classes.  A class is written once per method of a     *)
(* service, and all it does is to name four things: the service it holds   *)
(* a reference to, the Request it makes in init(), the handler it runs in  *)
(* execute(), and the class its duplicate() creates.  What a process does  *)
(* with them is the same in each class and is modelled in module Server.   *)
(***************************************************************************)

ProcessClass(service, requests, executes, duplicates) ==
    [service |-> service, requests |-> requests,
     executes |-> executes, duplicates |-> duplicates]

ListMemosProcess  == ProcessClass("MemoService", "ListMemos",  "ListMemos",  "ListMemosProcess")
AddMemoProcess    == ProcessClass("MemoService", "AddMemo",    "AddMemo",    "AddMemoProcess")
RemoveMemoProcess == ProcessClass("MemoService", "RemoveMemo", "RemoveMemo", "RemoveMemoProcess")
UpdateMemoProcess == ProcessClass("MemoService", "UpdateMemo", "UpdateMemo", "UpdateMemoProcess")
ListTagsProcess   == ProcessClass("TagService",  "ListTags",   "ListTags",   "ListTagsProcess")
AddTagProcess     == ProcessClass("TagService",  "AddTag",     "AddTag",     "AddTagProcess")
UpdateTagProcess  == ProcessClass("TagService",  "UpdateTag",  "UpdateTag",  "UpdateTagProcess")

\* Mutants: a class copied from its neighbour with one name left as it was.
RunsAnothersHandler == ProcessClass("TagService", "RemoveTag", "UpdateTag", "RemoveTagProcess")
DuplicatesAnother   == ProcessClass("TagService", "RemoveTag", "RemoveTag", "UpdateTagProcess")

RemoveTagProcess  == ProcessClass("TagService",  "RemoveTag",  "RemoveTag",  "RemoveTagProcess")

Classes ==
    [ListMemosProcess |-> ListMemosProcess, AddMemoProcess |-> AddMemoProcess,
     RemoveMemoProcess |-> RemoveMemoProcess, UpdateMemoProcess |-> UpdateMemoProcess,
     ListTagsProcess |-> ListTagsProcess, AddTagProcess |-> AddTagProcess,
     UpdateTagProcess |-> UpdateTagProcess, RemoveTagProcess |-> RemoveTagProcess]

ClassNames == {"ListMemosProcess", "AddMemoProcess", "RemoveMemoProcess", "UpdateMemoProcess",
               "ListTagsProcess", "AddTagProcess", "UpdateTagProcess", "RemoveTagProcess"}

Services == {"MemoService", "TagService"}

Methods == {"ListMemos", "AddMemo", "RemoveMemo", "UpdateMemo",
            "ListTags", "AddTag", "UpdateTag", "RemoveTag"}

\* The processes each service creates when it is enabled, in this order.
MemoServiceProcesses ==
    <<"ListMemosProcess", "AddMemoProcess", "RemoveMemoProcess", "UpdateMemoProcess">>
TagServiceProcesses ==
    <<"ListTagsProcess", "AddTagProcess", "UpdateTagProcess", "RemoveTagProcess">>

=============================================================================
