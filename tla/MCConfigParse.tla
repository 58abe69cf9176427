---------------------------- MODULE MCConfigParse ----------------------------
(* A minimal accepted configuration and every document one or two edits    *)
(* away from it, plus the empty file.                                      *)
EXTENDS ConfigParse

Absent == [t |-> "absent"]
Abs(w) == YStr(<<"/", w>>)

BaseChannels ==
    "arguments" :> YList(<<>>) @@ "input-type" :> YStr(<<"Stdin">>)
    @@ "output-type" :> YStr(<<"file">>)
    @@ "log-stdout" :> YBool(FALSE) @@ "log-stderr" :> YBool(FALSE)

Base ==
    "work-directory" :> Abs("w") @@ "input-directory" :> YStr(<<"in">>)
    @@ "source" :> YHash("bin-path" :> Abs("src") @@ BaseChannels)
    @@ "sink" :> YHash("bin-path" :> Abs("snk") @@ BaseChannels)
    @@ "vanilla" :> YHash("bin-path" :> Abs("van"))

Edits ==
  { [path |-> <<"foo">>, val |-> YStr(<<"bar">>)],
    [path |-> <<IntKey>>, val |-> YInt(1)],
    [path |-> <<"jail-uid">>, val |-> YInt(1)],
    [path |-> <<"input-directory">>, val |-> YStr(<<"gone">>)],
    [path |-> <<"vanilla">>, val |-> Absent],
    [path |-> <<"phases">>, val |-> Null],
    [path |-> <<"phases">>, val |->
        YHash("discovery" :> YHash("enabled" :> YBool(TRUE) @@ "batch-size" :> YInt(1)
                                   @@ "terminate-when-finished" :> YBool(FALSE)))],
    [path |-> <<"phases">>, val |->
        YHash("mutate" :> YHash("weight" :> YInt(1)
                                @@ "entry-cov-timeout" :> YStr(<<"5", "m">>)))],
    [path |-> <<"phases">>, val |->
        YHash("add" :> YHash("weight" :> YInt(1) @@ "batch-size" :> YInt(1)
                             @@ "select-unfuzzed-weight" :> YInt(0)
                             @@ "select-yielding-weight" :> YInt(0)
                             @@ "select-random-weight" :> YInt(0)))],
    [path |-> <<"afl-net">>, val |->
        YHash("bin-path" :> Abs("gone") @@ "input-dir" :> YStr(<<"in">>)
              @@ "netinfo" :> YStr(<<"tcp">>) @@ "protocol" :> YStr(<<"x">>))],
    [path |-> <<"source", "server-ready-on">>, val |-> YStr(<<"x">>)],
    [path |-> <<"source", "server-ready-on">>, val |-> YStr(<<"Listen", "(", "3", ")">>)],
    [path |-> <<"source", "env">>, val |-> YList(<<YHash("A" :> YStr(<<"1">>))>>)],
    [path |-> <<"sink", "bin-path">>, val |-> Abs("gone")] }

SetKey(h, k, v) ==
    IF v = Absent THEN [x \in DOMAIN h \ {k} |-> h[x]]
    ELSE [x \in DOMAIN h \cup {k} |-> IF x = k THEN v ELSE h[x]]

Apply(h, e) ==
    IF Len(e.path) = 1 THEN SetKey(h, e.path[1], e.val)
    ELSE SetKey(h, e.path[1], YHash(SetKey(h[e.path[1]].v, e.path[2], e.val)))

(* Two edits of distinct keys commute.                                     *)
MCDocs ==
    {NoDocument, YHash(Base)}
    \cup {YHash(Apply(Base, e)) : e \in Edits}
    \cup {YHash(Apply(Apply(Base, pr[1]), pr[2])) :
            pr \in {pr \in Edits \X Edits : pr[1].path # pr[2].path}}
=============================================================================
