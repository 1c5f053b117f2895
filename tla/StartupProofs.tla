---------------------------- MODULE StartupProofs ---------------------------
(***************************************************************************)
(* Proofs about Startup, for any arguments, files and environments: the    *)
(* arguments mean what their order says, the settings are those of the     *)
(* file, and the server runs with what the file and the environment say.   *)
(***************************************************************************)
EXTENDS Startup, FiniteSetTheorems, SequenceTheorems, TLAPS

\* The places main has reached when it has taken a setting.
FromListen == {"listen_addr", "bind", "serving"}
FromPort == {"port"} \cup FromListen
FromEnvironment == {"environment"} \cup FromPort
FromTrim == {"trim_symbol"} \cup FromEnvironment
FromLevel == {"backtrace_level"} \cup FromTrim
FromColor == {"color"} \cup FromLevel
\* The places where nothing has asked for colours yet.
Uncoloured == {"args", "options", "open", "lines", "verbose", "color", "backtrace_level", "trim_symbol",
               "environment"}

\* The types, one variable at a time.
Typed ==
    /\ at \in Places
    /\ argv \in Seq(Arguments) /\ bare \in Seq(Arguments)
    /\ current \in {NoWord} \cup {p.name : p \in Parameters}
    /\ DOMAIN args \subseteq {p.name : p \in Parameters}
    /\ lines \in Seq(Lines)
    /\ env \in Environments /\ tty \in BOOLEAN /\ verbose \in BOOLEAN
    /\ noColor \in BOOLEAN /\ trim \in BOOLEAN
    /\ cache \in {"unset", "plain", "colour"}
    /\ level \in Ints
    /\ port \in Int /\ (at = "serving" => port \in 0 .. PortSpan - 1)

\* The port and the address the file asks for, or the defaults of main.
PortOf == IF Integer("port") = -1 THEN 8080 ELSE Integer("port")
HostOf == IF Text("listen_addr") = <<>> THEN <<"127.0.0.1">> ELSE Text("listen_addr")

\* What main has taken from the file, setting by setting.
VerboseRead == Single("verbose") /\ verbose = TrueFalse(Text("verbose"))
VerboseChosen ==
    /\ Single("verbose")
    /\ verbose = TrueFalse(IF env.VERBOSE # <<>> THEN env.VERBOSE ELSE Text("verbose"))
ColourRead == Single("color") /\ noColor = ~TrueFalse(Text("color"))
LevelRead == IntOK("backtrace_level") /\ level = Integer("backtrace_level")
TrimRead == Single("trim_symbol") /\ trim = TrueFalse(Text("trim_symbol"))
PortRead == IntOK("port") /\ port = PortOf
PortBound == IntOK("port") /\ port = PortOf % PortSpan
HostRead == Single("listen_addr") /\ host = HostOf

\* The globals are those of the file as soon as main has taken them from it, and the first message in
\* colour, or not, comes when the last setting that decides about it is known.
Settled ==
    /\ at \in FromColor \ FromPort => VerboseRead
    /\ at \in FromPort => VerboseChosen
    /\ at \in FromLevel => ColourRead
    /\ at \in FromTrim => LevelRead
    /\ at \in FromEnvironment => TrimRead
    /\ at \in FromListen \ {"serving"} => PortRead
    /\ at \in {"bind", "serving"} => HostRead
    /\ at = "serving" => PortBound
    /\ at \in {"args", "options"} => ~verbose
    /\ at \in Uncoloured => cache = "unset"
    /\ at \in FromPort /\ cache # "unset" => cache = Decide

-----------------------------------------------------------------------------
\* What an int can hold; a number that it holds is read as it is.
LEMMA AsIntType ==
    ASSUME StartupAssumption, NEW n \in Int
    PROVE  /\ AsInt(n) \in Ints
           /\ n \in Ints => AsInt(n) = n
<1> DEFINE half == IntSpan \div 2
<1>1. /\ half \in Nat /\ IntSpan = 2 * half /\ half > 0
  <2>1. IntSpan \in Nat /\ IntSpan > 0 /\ IntSpan % 2 = 0
    BY DEF StartupAssumption
  <2> QED
    BY ONLY <2>1
<1>2. (n + half) % IntSpan \in 0 .. IntSpan - 1
  BY <1>1 DEF StartupAssumption
<1>3. ASSUME n \in Ints
      PROVE  (n + half) % IntSpan = n + half
  <2>1. n + half \in 0 .. IntSpan - 1
    BY <1>1, <1>3 DEF Ints
  <2> QED
    BY <1>1, <2>1 DEF StartupAssumption
<1> HIDE DEF half
<1>4. AsInt(n) = ((n + half) % IntSpan) - half /\ Ints = -half .. half - 1
  BY DEF AsInt, Ints, half
<1>5. PICK r \in 0 .. IntSpan - 1 : r = (n + half) % IntSpan
  BY <1>2
<1>6. AsInt(n) \in Ints
  BY ONLY <1>1, <1>4, <1>5
<1>7. ASSUME n \in Ints
      PROVE  AsInt(n) = n
  <2>1. AsInt(n) = (n + half) - half
    BY ONLY <1>3, <1>4, <1>7
  <2> QED
    BY ONLY <1>1, <2>1, n \in Int
<1> QED
  BY <1>6, <1>7

\* What an int holds, a long long holds.
LEMMA IntsAreLongs == StartupAssumption => Ints \subseteq Longs
<1> SUFFICES ASSUME StartupAssumption
             PROVE  Ints \subseteq Longs
  OBVIOUS
<1>1. IntSpan \in Nat /\ LongSpan \in Nat /\ LongSpan >= IntSpan
  BY DEF StartupAssumption
<1>2. IntSpan \div 2 <= LongSpan \div 2 /\ IntSpan \div 2 \in Nat /\ LongSpan \div 2 \in Nat
  BY ONLY <1>1
<1> QED
  BY <1>2 DEF Ints, Longs

\* A port that fits its type is bound as it is; any other is cut to one that does.
LEMMA ModType ==
    ASSUME StartupAssumption, NEW n \in Int
    PROVE  n % PortSpan \in 0 .. PortSpan - 1 /\ (n \in 0 .. PortSpan - 1 => n % PortSpan = n)
BY DEF StartupAssumption

\* A setting that main takes as a number is an int.
LEMMA IntegerType ==
    ASSUME StartupAssumption, NEW s, IntOK(s)
    PROVE  Integer(s) \in Ints /\ Integer(s) \in Int
<1>1. -1 \in Ints
  BY DEF StartupAssumption, Ints
<1>2. ASSUME Values(s) # <<>>
      PROVE  Integer(s) \in Ints
  <2>1. Number[Text(s)[1]] \in Int
    BY <1>2 DEF IntOK, Numeric, StartupAssumption
  <2> QED
    BY <1>2, <2>1, AsIntType DEF Integer
<1>3. \A n \in Ints : n \in Int
  BY DEF Ints, StartupAssumption
<1> QED
  BY <1>1, <1>2, <1>3 DEF Integer

\* Who asks for colours first gets, and settles, what Decide says.
LEMMA DecideType == Decide \in {"plain", "colour"} /\ (cache' # cache /\ AskColour => cache' = Decide)
BY DEF Decide, AskColour

\* What the file says of a setting does not change once the file is read.
LEMMA SameFile ==
    ASSUME UNCHANGED config
    PROVE  /\ \A s : Text(s)' = Text(s) /\ Integer(s)' = Integer(s)
           /\ \A s : (Single(s)' <=> Single(s)) /\ (IntOK(s)' <=> IntOK(s))
           /\ PortOf' = PortOf /\ HostOf' = HostOf
<1>1. \A s : Values(s)' = Values(s)
  BY DEF Values
<1>2. \A s : Text(s)' = Text(s) /\ (Single(s)' <=> Single(s))
  BY <1>1 DEF Text, Single
<1>3. \A s : Integer(s)' = Integer(s) /\ (IntOK(s)' <=> IntOK(s))
  BY <1>1, <1>2 DEF Integer, IntOK
<1> QED
  BY <1>2, <1>3 DEF PortOf, HostOf

\* What main has taken stays taken.
LEMMA SameReads ==
    ASSUME UNCHANGED <<config, env, tty>>
    PROVE  /\ verbose' = verbose => (VerboseRead' <=> VerboseRead) /\ (VerboseChosen' <=> VerboseChosen)
           /\ noColor' = noColor => (ColourRead' <=> ColourRead) /\ Decide' = Decide
           /\ level' = level => (LevelRead' <=> LevelRead)
           /\ trim' = trim => (TrimRead' <=> TrimRead)
           /\ port' = port => (PortRead' <=> PortRead) /\ (PortBound' <=> PortBound)
           /\ host' = host => (HostRead' <=> HostRead)
           /\ PortOf' = PortOf
<1>1. /\ verbose' = verbose => (VerboseRead' <=> VerboseRead) /\ (VerboseChosen' <=> VerboseChosen)
      /\ noColor' = noColor => (ColourRead' <=> ColourRead) /\ Decide' = Decide
  BY SameFile DEF VerboseRead, VerboseChosen, ColourRead, Decide
<1>2. /\ level' = level => (LevelRead' <=> LevelRead)
      /\ trim' = trim => (TrimRead' <=> TrimRead)
  BY SameFile DEF LevelRead, TrimRead
<1>3. /\ port' = port => (PortRead' <=> PortRead) /\ (PortBound' <=> PortBound)
      /\ host' = host => (HostRead' <=> HostRead)
  BY SameFile DEF PortRead, PortBound, HostRead
<1> QED
  BY SameFile, <1>1, <1>2, <1>3

-----------------------------------------------------------------------------
\* One turn of the loop over argv keeps the types.
LEMMA NextArgTyped ==
    ASSUME Typed, NEW a \in Arguments, NextArg(a)
    PROVE  Typed'
<1>1. argv' \in Seq(Arguments) /\ at \in Places /\ at' \in Places /\ at' # "serving"
  BY DEF Typed, NextArg, Refuse, Places, Refusals, Setting
<1>2. cache' \in {"unset", "plain", "colour"}
  BY DEF Typed, NextArg, Refuse, AskColour, Decide
<1>3. bare' \in Seq(Arguments)
  BY DEF Typed, NextArg
<1>4. /\ current' \in {NoWord} \cup {p.name : p \in Parameters}
      /\ DOMAIN args' \subseteq {p.name : p \in Parameters}
  <2> DEFINE names == {p.name : p \in Parameters}
  <2>1. \A p \in Named(a) : p.name \in names
    BY DEF Named
  <2> HIDE DEF names
  <2>2. current \in {NoWord} \cup names /\ DOMAIN args \subseteq names
    BY DEF Typed, names
  <2>3. ASSUME NEW n \in names, NEW v, args' = Emplace(args, n, v)
        PROVE  DOMAIN args' \subseteq names
    <3>1. DOMAIN args' = DOMAIN args \cup {n}
      BY <2>3 DEF Emplace
    <3> QED
      BY <2>2, <3>1
  <2>4. ASSUME NEW p \in Named(a), IF p.value
                                    THEN current' = p.name /\ UNCHANGED args
                                    ELSE args' = Emplace(args, p.name, <<>>) /\ UNCHANGED current
        PROVE  current' \in {NoWord} \cup names /\ DOMAIN args' \subseteq names
    BY <2>1, <2>2, <2>3, <2>4
  <2>5. ASSUME current # NoWord, args' = Emplace(args, current, a), current' = NoWord
        PROVE  current' \in {NoWord} \cup names /\ DOMAIN args' \subseteq names
    <3>1. current \in names
      BY <2>2, <2>5
    <3> QED
      BY <2>3, <2>5, <3>1
  <2>6. current' \in {NoWord} \cup names /\ DOMAIN args' \subseteq names
    BY <2>2, <2>4, <2>5 DEF NextArg
  <2> QED
    BY <2>6 DEF names
<1> QED
  BY <1>1, <1>2, <1>3, <1>4 DEF Typed, NextArg, settings, reading

\* One line of the file keeps the types.
LEMMA NextLineTyped ==
    ASSUME Typed, NEW l \in Lines, NextLine(l)
    PROVE  Typed'
<1>1. lines' \in Seq(Lines) /\ at' \in Places /\ at' # "serving"
  BY DEF Typed, NextLine, Refuse, Places, Refusals, Setting
<1>2. cache' \in {"unset", "plain", "colour"}
  BY DEF Typed, NextLine, Refuse, AskColour, Decide
<1> QED
  BY <1>1, <1>2 DEF Typed, NextLine, settings, parsing

\* One turn of the loop over argv settles nothing.
LEMMA NextArgSettled ==
    ASSUME Typed, Settled, NEW a \in Arguments, NextArg(a)
    PROVE  Settled'
BY NextArgTyped DEF Typed, Settled, NextArg, Refuse, settings, Uncoloured, Refusals, Setting,
   FromColor, FromLevel, FromTrim, FromEnvironment, FromPort, FromListen

\* One line of the file settles nothing.
LEMMA NextLineSettled ==
    ASSUME Typed, Settled, NEW l \in Lines, NextLine(l)
    PROVE  Settled'
BY DEF Settled, NextLine, Refuse, settings, Uncoloured, Refusals, FromColor, FromLevel, FromTrim,
   FromEnvironment, FromPort, FromListen

\* The steps of main, one by one, keep the types and settle what they take: the end of the arguments.
LEMMA EndArgsKeeps ==
    ASSUME Typed, Settled, EndArgs
    PROVE  Typed' /\ Settled'
<1>1. Typed'
  BY DEF Typed, EndArgs, Places, Refusals, Setting, Refuse, AskColour, Decide, parsing, reading, settings
<1>2. Settled'
  BY SameReads DEF Settled, EndArgs, Uncoloured, Refusals, Refuse, AskColour, Decide, parsing, reading,
     settings, FromColor, FromLevel, FromTrim, FromEnvironment, FromPort, FromListen
<1> QED
  BY <1>1, <1>2

\* The help or the versions, in colour: main ends.
LEMMA PrintOnlyKeeps ==
    ASSUME Typed, Settled, PrintOnly
    PROVE  Typed' /\ Settled'
<1>1. Typed'
  BY DEF Typed, PrintOnly, Places, Refusals, Setting, Refuse, AskColour, Decide, parsing, reading, settings
<1>2. Settled'
  BY SameReads DEF Settled, PrintOnly, Uncoloured, Refusals, Refuse, AskColour, Decide, parsing,
     reading, settings, FromColor, FromLevel, FromTrim, FromEnvironment, FromPort, FromListen
<1> QED
  BY <1>1, <1>2

\* The switch of the command line: no message comes before it, so no colour is asked for.
LEMMA VerboseSwitchKeeps ==
    ASSUME Typed, Settled, VerboseSwitch
    PROVE  Typed' /\ Settled'
<1>1. Typed'
  BY DEF Typed, VerboseSwitch, Places, Refusals, Setting, AskColour, Decide, reading, settings, Forget
<1>2. Settled'
  BY SameReads DEF Settled, VerboseSwitch, Uncoloured, Refusals, AskColour, Decide, reading, settings,
     Forget, FromColor, FromLevel, FromTrim, FromEnvironment, FromPort, FromListen
<1> QED
  BY <1>1, <1>2

\* The file is opened, or main refuses to start.
LEMMA OpenConfigKeeps ==
    ASSUME Typed, Settled, OpenConfig
    PROVE  Typed' /\ Settled'
<1>1. Typed'
  BY DEF Typed, OpenConfig, Places, Refusals, Setting, Refuse, AskColour, Decide, parsing, reading, settings
<1>2. Settled'
  BY SameReads DEF Settled, OpenConfig, Uncoloured, Refusals, Refuse, AskColour, Decide, parsing,
     reading, settings, FromColor, FromLevel, FromTrim, FromEnvironment, FromPort, FromListen
<1> QED
  BY <1>1, <1>2

\* The end of the file.
LEMMA EndLinesKeeps ==
    ASSUME Typed, Settled, EndLines
    PROVE  Typed' /\ Settled'
<1>1. Typed'
  BY DEF Typed, EndLines, Places, Refusals, Setting, parsing, reading, settings
<1>2. Settled'
  BY SameReads DEF Settled, EndLines, Uncoloured, Refusals, parsing, reading, settings, FromColor,
     FromLevel, FromTrim, FromEnvironment, FromPort, FromListen
<1> QED
  BY <1>1, <1>2

\* debug.verbose is taken, or main refuses to start.
LEMMA ReadVerboseKeeps ==
    ASSUME StartupAssumption, Typed, Settled, ReadVerbose
    PROVE  Typed' /\ Settled'
<1>1. Typed'
  BY IntegerType DEF Typed, ReadVerbose, ReadSetting, To, TrueFalse, Refuse, AskColour, Decide,
     Places, Refusals, Setting, parsing, reading
<1>2. CASE Single("verbose")
  <2>1. at = "verbose" /\ at' = "color" /\ cache' = cache
    BY <1>2 DEF ReadVerbose, ReadSetting, Single
  <2>2. verbose' = TrueFalse(Text("verbose"))
    BY <1>2 DEF ReadVerbose, To, Single
  <2>3. UNCHANGED <<config, env, tty>>
    BY DEF ReadVerbose, ReadSetting, reading
  <2>4. VerboseRead'
    BY <1>2, <2>2, <2>3, SameFile DEF VerboseRead
  <2> QED
    BY <1>1, <2>1, <2>3, <2>4, SameReads DEF Settled, ReadVerbose, Uncoloured, Refusals,
       FromColor, FromLevel, FromTrim, FromEnvironment, FromPort, FromListen
<1>3. CASE ~Single("verbose")
  <2>1. at' = "badSetting"
    BY <1>3 DEF ReadVerbose, ReadSetting, Refuse, Single
  <2> QED
    BY <1>1, <2>1 DEF Settled, Uncoloured, FromColor, FromLevel, FromTrim, FromEnvironment, FromPort,
       FromListen
<1> QED
  BY <1>1, <1>2, <1>3

\* general.color is taken, or main refuses to start.
LEMMA ReadColorKeeps ==
    ASSUME StartupAssumption, Typed, Settled, ReadColor
    PROVE  Typed' /\ Settled'
<1>1. Typed'
  BY IntegerType DEF Typed, ReadColor, ReadSetting, To, TrueFalse, Refuse, AskColour, Decide,
     Places, Refusals, Setting, parsing, reading
<1>2. CASE Single("color")
  <2>1. at = "color" /\ at' = "backtrace_level" /\ cache' = cache
    BY <1>2 DEF ReadColor, ReadSetting, Single
  <2>2. noColor' = ~TrueFalse(Text("color"))
    BY <1>2 DEF ReadColor, To, Single
  <2>3. UNCHANGED <<config, env, tty>>
    BY DEF ReadColor, ReadSetting, reading
  <2>4. ColourRead'
    BY <1>2, <2>2, <2>3, SameFile DEF ColourRead
  <2> QED
    BY <1>1, <2>1, <2>3, <2>4, SameReads DEF Settled, ReadColor, Uncoloured, Refusals,
       FromColor, FromLevel, FromTrim, FromEnvironment, FromPort, FromListen
<1>3. CASE ~Single("color")
  <2>1. at' = "badSetting"
    BY <1>3 DEF ReadColor, ReadSetting, Refuse, Single
  <2> QED
    BY <1>1, <2>1 DEF Settled, Uncoloured, FromColor, FromLevel, FromTrim, FromEnvironment, FromPort,
       FromListen
<1> QED
  BY <1>1, <1>2, <1>3

\* debug.backtrace_level is taken, or main refuses to start.
LEMMA ReadLevelKeeps ==
    ASSUME StartupAssumption, Typed, Settled, ReadLevel
    PROVE  Typed' /\ Settled'
<1>1. Typed'
  BY IntegerType DEF Typed, ReadLevel, ReadSetting, To, TrueFalse, Refuse, AskColour, Decide,
     Places, Refusals, Setting, parsing, reading
<1>2. CASE IntOK("backtrace_level")
  <2>1. at = "backtrace_level" /\ at' = "trim_symbol" /\ cache' = cache
    BY <1>2 DEF ReadLevel, ReadSetting, IntOK
  <2>2. level' = Integer("backtrace_level")
    BY <1>2 DEF ReadLevel, IntOK
  <2>3. UNCHANGED <<config, env, tty>>
    BY DEF ReadLevel, ReadSetting, reading
  <2>4. LevelRead'
    BY <1>2, <2>2, <2>3, SameFile DEF LevelRead
  <2> QED
    BY <1>1, <2>1, <2>3, <2>4, SameReads DEF Settled, ReadLevel, Uncoloured, Refusals,
       FromColor, FromLevel, FromTrim, FromEnvironment, FromPort, FromListen
<1>3. CASE ~IntOK("backtrace_level")
  <2>1. at' = "badSetting"
    BY <1>3 DEF ReadLevel, ReadSetting, Refuse, IntOK
  <2> QED
    BY <1>1, <2>1 DEF Settled, Uncoloured, FromColor, FromLevel, FromTrim, FromEnvironment, FromPort,
       FromListen
<1> QED
  BY <1>1, <1>2, <1>3

\* debug.trim_symbol is taken, or main refuses to start.
LEMMA ReadTrimKeeps ==
    ASSUME StartupAssumption, Typed, Settled, ReadTrim
    PROVE  Typed' /\ Settled'
<1>1. Typed'
  BY IntegerType DEF Typed, ReadTrim, ReadSetting, To, TrueFalse, Refuse, AskColour, Decide,
     Places, Refusals, Setting, parsing, reading
<1>2. CASE Single("trim_symbol")
  <2>1. at = "trim_symbol" /\ at' = "environment" /\ cache' = cache
    BY <1>2 DEF ReadTrim, ReadSetting, Single
  <2>2. trim' = TrueFalse(Text("trim_symbol"))
    BY <1>2 DEF ReadTrim, To, Single
  <2>3. UNCHANGED <<config, env, tty>>
    BY DEF ReadTrim, ReadSetting, reading
  <2>4. TrimRead'
    BY <1>2, <2>2, <2>3, SameFile DEF TrimRead
  <2> QED
    BY <1>1, <2>1, <2>3, <2>4, SameReads DEF Settled, ReadTrim, Uncoloured, Refusals,
       FromColor, FromLevel, FromTrim, FromEnvironment, FromPort, FromListen
<1>3. CASE ~Single("trim_symbol")
  <2>1. at' = "badSetting"
    BY <1>3 DEF ReadTrim, ReadSetting, Refuse, Single
  <2> QED
    BY <1>1, <2>1 DEF Settled, Uncoloured, FromColor, FromLevel, FromTrim, FromEnvironment, FromPort,
       FromListen
<1> QED
  BY <1>1, <1>2, <1>3

\* server.port is taken, or main refuses to start.
LEMMA ReadPortKeeps ==
    ASSUME StartupAssumption, Typed, Settled, ReadPort
    PROVE  Typed' /\ Settled'
<1>1. Typed'
  BY IntegerType DEF Typed, ReadPort, ReadSetting, To, TrueFalse, Refuse, AskColour, Decide,
     Places, Refusals, Setting, parsing, reading
<1>2. CASE IntOK("port")
  <2>1. at = "port" /\ at' = "listen_addr" /\ cache' = cache
    BY <1>2 DEF ReadPort, ReadSetting, IntOK
  <2>2. port' = PortOf
    BY <1>2 DEF ReadPort, IntOK, PortOf
  <2>3. UNCHANGED <<config, env, tty>>
    BY DEF ReadPort, ReadSetting, reading
  <2>4. PortRead'
    BY <1>2, <2>2, <2>3, SameFile DEF PortRead
  <2> QED
    BY <1>1, <2>1, <2>3, <2>4, SameReads DEF Settled, ReadPort, Uncoloured, Refusals,
       FromColor, FromLevel, FromTrim, FromEnvironment, FromPort, FromListen
<1>3. CASE ~IntOK("port")
  <2>1. at' = "badSetting"
    BY <1>3 DEF ReadPort, ReadSetting, Refuse, IntOK
  <2> QED
    BY <1>1, <2>1 DEF Settled, Uncoloured, FromColor, FromLevel, FromTrim, FromEnvironment, FromPort,
       FromListen
<1> QED
  BY <1>1, <1>2, <1>3

\* server.listen_addr is taken, or main refuses to start.
LEMMA ReadHostKeeps ==
    ASSUME StartupAssumption, Typed, Settled, ReadHost
    PROVE  Typed' /\ Settled'
<1>1. Typed'
  BY IntegerType DEF Typed, ReadHost, ReadSetting, To, TrueFalse, Refuse, AskColour, Decide,
     Places, Refusals, Setting, parsing, reading
<1>2. CASE Single("listen_addr")
  <2>1. at = "listen_addr" /\ at' = "bind" /\ cache' = cache
    BY <1>2 DEF ReadHost, ReadSetting, Single
  <2>2. host' = HostOf
    BY <1>2 DEF ReadHost, Single, HostOf
  <2>3. UNCHANGED <<config, env, tty>>
    BY DEF ReadHost, ReadSetting, reading
  <2>4. HostRead'
    BY <1>2, <2>2, <2>3, SameFile DEF HostRead
  <2> QED
    BY <1>1, <2>1, <2>3, <2>4, SameReads DEF Settled, ReadHost, Uncoloured, Refusals,
       FromColor, FromLevel, FromTrim, FromEnvironment, FromPort, FromListen
<1>3. CASE ~Single("listen_addr")
  <2>1. at' = "badSetting"
    BY <1>3 DEF ReadHost, ReadSetting, Refuse, Single
  <2> QED
    BY <1>1, <2>1 DEF Settled, Uncoloured, FromColor, FromLevel, FromTrim, FromEnvironment, FromPort,
       FromListen
<1> QED
  BY <1>1, <1>2, <1>3

\* VERBOSE overrides the file; its message may be the first to ask for colours.
LEMMA EnvVerboseKeeps ==
    ASSUME Typed, Settled, EnvVerbose
    PROVE  Typed' /\ Settled'
<1>1. Typed'
  BY DEF Typed, EnvVerbose, TrueFalse, AskColour, Decide, Places, Refusals, Setting, parsing, reading
<1>2. VerboseChosen' /\ at' = "port" /\ at = "environment"
  BY SameFile DEF Settled, EnvVerbose, VerboseRead, VerboseChosen, reading, FromColor, FromLevel,
     FromTrim, FromEnvironment, FromPort, FromListen
<1>3. cache' # "unset" => cache' = Decide'
  BY SameReads DEF Settled, EnvVerbose, AskColour, reading, Uncoloured, Refusals, FromColor, FromLevel,
     FromTrim, FromEnvironment, FromPort, FromListen
<1>4. Settled'
  BY <1>2, <1>3, SameReads DEF Settled, EnvVerbose, reading, Uncoloured, Refusals,
     FromColor, FromLevel, FromTrim, FromEnvironment, FromPort, FromListen
<1> QED
  BY <1>1, <1>4

\* The port is cut to its type.
LEMMA BindKeeps ==
    ASSUME StartupAssumption, Typed, Settled, Bind
    PROVE  Typed' /\ Settled'
<1>1. Typed'
  BY ModType DEF Typed, Bind, Places, Refusals, Setting, parsing, reading
<1>2. PortBound' /\ at = "bind" /\ at' = "serving"
  BY SameFile DEF Settled, Bind, PortRead, PortBound, reading, FromListen
<1>3. Settled'
  BY <1>2, SameReads DEF Settled, Bind, reading, Uncoloured, Refusals, FromColor, FromLevel, FromTrim,
     FromEnvironment, FromPort, FromListen
<1> QED
  BY <1>1, <1>3

\* A message of the running server asks for colours when all that decides is known.
LEMMA LogKeeps ==
    ASSUME Typed, Settled, Log
    PROVE  Typed' /\ Settled'
<1>1. Typed'
  BY DEF Typed, Log, AskColour, Decide, settings, parsing, reading
<1>2. Settled'
  BY SameReads DEF Settled, Log, AskColour, settings, reading, Uncoloured, Refusals,
     FromColor, FromLevel, FromTrim, FromEnvironment, FromPort, FromListen
<1> QED
  BY <1>1, <1>2
-----------------------------------------------------------------------------
\* The heads among the first i lines; the last of them, if there is one.
Heads(i) == {h \in 1 .. i : IsHead(lines[h])}
HasLast(i) == Heads(i) = {} \/ (\E m \in Heads(i) : \A h \in Heads(i) : h <= m)
\* What the lines may stand for; the file unread; a file that is not refused; the rank of a line.
ValuesOf(e) == {Expand(e, ValueOf(Clean(l))) : l \in Lines}
NoLine == lines = <<>> /\ section = <<>> /\ config = <<>>
NoBadLine == \A i \in DOMAIN lines : ~(PairAt(i) /\ HeadAt(i) = 0)
NthOf(k, i) == Cardinality(LinesOf(k) \cap 1 .. i)
\* The values of the key k are those of its lines.
KeyWritten(k) ==
    /\ Len(config[k]) = Cardinality(LinesOf(k))
    /\ \A i \in LinesOf(k) : config[k][NthOf(k, i)] = Expand(env, ValueOf(Clean(lines[i])))

\* The file so far: the section is that of the last head, and the values are those of the lines.
Written ==
    /\ at \in {"args", "options", "printed", "open", "badArgument", "noConfig"} => NoLine
    /\ \A i \in 0 .. Len(lines) : HasLast(i)
    /\ section = IF HeadAt(Len(lines)) = 0 THEN <<>> ELSE SectionOf(Clean(lines[HeadAt(Len(lines))]))
    /\ (at = "badFile") <=> ~NoBadLine
    /\ \A k : k \in DOMAIN config <=> LinesOf(k) # {}
    /\ \A k \in DOMAIN config : config[k] \in Seq(ValuesOf(env)) /\ KeyWritten(k)

\* HeadAt(i) is the last head among the first i lines, or 0 when there is none.
LEMMA HeadFacts ==
    ASSUME NEW i \in Nat, HasLast(i)
    PROVE  /\ HeadAt(i) = 0 <=> Heads(i) = {}
           /\ HeadAt(i) # 0 => HeadAt(i) \in Heads(i) /\ HeadAt(i) \in 1 .. i
           /\ \A h \in Heads(i) : h <= HeadAt(i)
<1>1. HeadAt(i) = IF Heads(i) # {} THEN Max(Heads(i)) ELSE 0
  BY DEF HeadAt, SelectLastInSubSeq, Heads
<1>2. Heads(i) \subseteq 1 .. i
  BY DEF Heads
<1>3. ASSUME Heads(i) # {}
      PROVE  Max(Heads(i)) \in Heads(i) /\ \A h \in Heads(i) : h <= Max(Heads(i))
  <2>1. PICK m \in Heads(i) : \A h \in Heads(i) : m >= h
    BY <1>2, <1>3 DEF HasLast
  <2>2. Max(Heads(i)) \in Heads(i) /\ \A h \in Heads(i) : Max(Heads(i)) >= h
    BY <2>1 DEF Max
  <2> QED
    BY <1>2, <2>2
<1> QED
  BY <1>1, <1>2, <1>3

\* The file is longer by one line, the n+1st: what was said of the lines before it stays; the new one
\* stands under the same head unless it is one.
LongerBy(line, n) ==
    /\ \A i \in 0 .. n : Heads(i)' = Heads(i) /\ HeadAt(i)' = HeadAt(i)
    /\ \A i \in 1 .. n :
          /\ lines'[i] = lines[i] /\ (PairAt(i)' <=> PairAt(i))
          /\ HeadAt(i) # 0 => Under(i)' = Under(i)
    /\ \A i \in 0 .. n + 1 : HasLast(i)'
    /\ HeadAt(n + 1)' = IF IsHead(line) THEN n + 1 ELSE HeadAt(n)
    /\ PairAt(n + 1)' <=> ~IsHead(line) /\ KeyOf(Clean(line)) # <<>>
    /\ lines'[n + 1] = line

\* A line that is appended changes nothing about the lines before it.
LEMMA OneMoreLine ==
    ASSUME lines \in Seq(Lines), NEW line, lines' = Append(lines, line),
           NEW n \in Nat, n = Len(lines), \A i \in 0 .. n : HasLast(i)
    PROVE  LongerBy(line, n)
<1>1. /\ DOMAIN lines = 1 .. n /\ DOMAIN lines' = 1 .. n + 1
      /\ \A i \in 1 .. n : lines'[i] = lines[i]
      /\ lines'[n + 1] = line
  OBVIOUS
<1>2. \A i \in 0 .. n : Heads(i)' = Heads(i)
  <2> SUFFICES ASSUME NEW i \in 0 .. n
               PROVE  Heads(i)' = Heads(i)
    OBVIOUS
  <2>1. \A h \in 1 .. i : lines'[h] = lines[h]
    BY <1>1
  <2> QED
    BY <2>1 DEF Heads
<1>3. \A i \in 0 .. n : HeadAt(i)' = HeadAt(i)
  BY <1>2 DEF HeadAt, SelectLastInSubSeq, Heads
<1>4. \A i \in 0 .. n : HasLast(i)
  OBVIOUS
<1>5. \A i \in 0 .. n : HasLast(i)'
  BY <1>2, <1>4 DEF HasLast
<1>6. Heads(n + 1)' = IF IsHead(line) THEN Heads(n) \cup {n + 1} ELSE Heads(n)
  <2>1. Heads(n + 1)' = Heads(n)' \cup {h \in {n + 1} : IsHead(line)}
    BY <1>1 DEF Heads
  <2>2. Heads(n)' = Heads(n)
    BY <1>1, <1>2
  <2> QED
    BY <2>1, <2>2
<1>7. HasLast(n + 1)' /\ HeadAt(n + 1)' = IF IsHead(line) THEN n + 1 ELSE HeadAt(n)
  <2>1. \A h \in Heads(n) : h \in 1 .. n
    BY DEF Heads
  <2>2. CASE IsHead(line)
    <3>1. n + 1 \in Heads(n + 1)' /\ \A h \in Heads(n + 1)' : h <= n + 1
      BY <1>1, <1>6, <2>1, <2>2
    <3>2. HasLast(n + 1)'
      BY <3>1 DEF HasLast
    <3>3. HeadAt(n + 1)' = Max(Heads(n + 1)')
      BY <3>1 DEF HeadAt, SelectLastInSubSeq, Heads
    <3>4. \A h \in Heads(n + 1)' : h \in Nat
      BY <1>1, <1>6, <2>1, <2>2
    <3>5. Max(Heads(n + 1)') \in Heads(n + 1)' /\ \A h \in Heads(n + 1)' : Max(Heads(n + 1)') >= h
      <4> DEFINE H == Heads(n + 1)'
      <4>1. \E m \in H : \A h \in H : m >= h
        BY <3>1, <3>4, <1>1
      <4> HIDE DEF H
      <4>2. Max(H) \in H /\ \A h \in H : Max(H) >= h
        BY <4>1 DEF Max
      <4> QED
        BY <4>2 DEF H
    <3>6. Max(Heads(n + 1)') = n + 1
      BY <1>1, <3>1, <3>4, <3>5
    <3> QED
      BY <2>2, <3>2, <3>3, <3>6
  <2>3. CASE ~IsHead(line)
    <3>1. Heads(n + 1)' = Heads(n)
      BY <1>6, <2>3
    <3>2. HasLast(n + 1)'
      BY <1>1, <1>4, <3>1 DEF HasLast
    <3>3. HeadAt(n + 1)' = HeadAt(n)
      BY <3>1 DEF HeadAt, SelectLastInSubSeq, Heads
    <3> QED
      BY <2>3, <3>2, <3>3
  <2> QED
    BY <2>2, <2>3
<1>8. \A i \in 1 .. n : PairAt(i)' <=> PairAt(i)
  BY <1>1 DEF PairAt
<1>9. \A i \in 1 .. n : HeadAt(i) # 0 => Under(i)' = Under(i)
  <2> SUFFICES ASSUME NEW i \in 1 .. n, HeadAt(i) # 0
               PROVE  Under(i)' = Under(i)
    OBVIOUS
  <2>1. i \in 0 .. n /\ i \in Nat
    BY <1>1
  <2>2. HeadAt(i) \in 1 .. i
    BY <1>4, <2>1, HeadFacts
  <2>3. HeadAt(i)' = HeadAt(i) /\ lines'[HeadAt(i)] = lines[HeadAt(i)] /\ lines'[i] = lines[i]
    BY <1>1, <1>3, <2>1, <2>2
  <2> QED
    BY <2>3 DEF Under
<1>10. PairAt(n + 1)' <=> ~IsHead(line) /\ KeyOf(Clean(line)) # <<>>
  BY <1>1 DEF PairAt
<1>11. \A i \in 0 .. n + 1 : HasLast(i)'
  <2>1. \A i \in 0 .. n + 1 : i \in 0 .. n \/ i = n + 1
    BY <1>1
  <2> QED
    BY <1>5, <1>7, <2>1
<1> QED
  BY <1>1, <1>2, <1>3, <1>7, <1>8, <1>9, <1>10, <1>11 DEF LongerBy

-----------------------------------------------------------------------------
\* A line that is appended is one of its own key's lines, and of no other's.
LEMMA OneMoreOf ==
    ASSUME lines \in Seq(Lines), NEW line, lines' = Append(lines, line),
           NEW n \in Nat, n = Len(lines), \A i \in 0 .. n : HasLast(i)
    PROVE  \A k : LinesOf(k)' = IF PairAt(n + 1)' /\ HeadAt(n + 1)' # 0 /\ Under(n + 1)' = k
                                THEN LinesOf(k) \cup {n + 1}
                                ELSE LinesOf(k)
<1> SUFFICES ASSUME NEW k
             PROVE  LinesOf(k)' = IF PairAt(n + 1)' /\ HeadAt(n + 1)' # 0 /\ Under(n + 1)' = k
                                  THEN LinesOf(k) \cup {n + 1}
                                  ELSE LinesOf(k)
  BY Zenon
<1>1. DOMAIN lines = 1 .. n /\ DOMAIN lines' = 1 .. n + 1
  OBVIOUS
<1>2. LongerBy(line, n)
  BY OneMoreLine
<1>3. ASSUME NEW i \in 1 .. n
      PROVE  i \in LinesOf(k)' <=> i \in LinesOf(k)
  <2>1. (PairAt(i)' <=> PairAt(i)) /\ HeadAt(i)' = HeadAt(i) /\ (HeadAt(i) # 0 => Under(i)' = Under(i))
    BY <1>2 DEF LongerBy
  <2> QED
    BY <1>1, <2>1 DEF LinesOf
<1>4. n + 1 \in LinesOf(k)' <=> PairAt(n + 1)' /\ HeadAt(n + 1)' # 0 /\ Under(n + 1)' = k
  BY <1>1 DEF LinesOf
<1>5. LinesOf(k) \subseteq 1 .. n /\ LinesOf(k)' \subseteq 1 .. n + 1
  BY <1>1 DEF LinesOf
<1>6. \A i \in 1 .. n + 1 : i \in 1 .. n \/ i = n + 1
  OBVIOUS
<1>7. CASE n + 1 \in LinesOf(k)'
  <2>1. LinesOf(k)' = LinesOf(k) \cup {n + 1}
    BY <1>3, <1>5, <1>6, <1>7
  <2> QED
    BY <1>4, <1>7, <2>1, Zenon
<1>8. CASE n + 1 \notin LinesOf(k)'
  <2>1. LinesOf(k)' = LinesOf(k)
    BY <1>3, <1>5, <1>6, <1>8
  <2> QED
    BY <1>4, <1>8, <2>1, Zenon
<1> QED
  BY <1>7, <1>8

\* The lines of a key are finitely many, and each has its place among them.
LEMMA LinesOfFinite ==
    ASSUME lines \in Seq(Lines), NEW k, NEW n \in Nat, n = Len(lines)
    PROVE  /\ LinesOf(k) \subseteq 1 .. n /\ IsFiniteSet(LinesOf(k)) /\ Cardinality(LinesOf(k)) \in Nat
           /\ \A i \in LinesOf(k) : NthOf(k, i) \in 1 .. Cardinality(LinesOf(k))
<1>1. LinesOf(k) \subseteq 1 .. n
  BY DEF LinesOf
<1>2. IsFiniteSet(1 .. n)
  BY FS_Interval
<1>3. IsFiniteSet(LinesOf(k)) /\ Cardinality(LinesOf(k)) \in Nat
  BY <1>1, <1>2, FS_Subset, FS_CardinalityType
<1>4. ASSUME NEW i \in LinesOf(k)
      PROVE  NthOf(k, i) \in 1 .. Cardinality(LinesOf(k))
  <2> DEFINE S == LinesOf(k) \cap 1 .. i
  <2>1. S \in SUBSET LinesOf(k) /\ S # {}
    BY <1>1
  <2> HIDE DEF S
  <2>2. IsFiniteSet(S) /\ Cardinality(S) <= Cardinality(LinesOf(k))
    BY <1>3, <2>1, FS_Subset
  <2>3. Cardinality(S) \in Nat /\ Cardinality(S) # 0
    BY <2>1, <2>2, FS_CardinalityType, FS_EmptySet
  <2>4. NthOf(k, i) = Cardinality(S)
    BY DEF NthOf, S
  <2> QED
    BY <1>3, <2>2, <2>3, <2>4
<1> QED
  BY <1>1, <1>3, <1>4

\* A key none of whose lines is new.
LEMMA KeySame ==
    ASSUME lines \in Seq(Lines), NEW line, lines' = Append(lines, line), UNCHANGED env,
           NEW k, LinesOf(k)' = LinesOf(k), config'[k] = config[k], KeyWritten(k)
    PROVE  KeyWritten(k)'
<1>1. \A i \in LinesOf(k) : lines'[i] = lines[i]
  BY DEF LinesOf
<1> QED
  BY <1>1 DEF KeyWritten, NthOf

\* A key with a new line, the last of its lines.
LEMMA KeyLonger ==
    ASSUME lines \in Seq(Lines), NEW line, lines' = Append(lines, line), UNCHANGED env,
           NEW n \in Nat, n = Len(lines), NEW k, LinesOf(k)' = LinesOf(k) \cup {n + 1},
           NEW old \in Seq(ValuesOf(env)), old = (IF k \in DOMAIN config THEN config[k] ELSE <<>>),
           k \in DOMAIN config => KeyWritten(k), k \notin DOMAIN config => LinesOf(k) = {},
           line \in Lines, config'[k] = Append(old, Expand(env, ValueOf(Clean(line))))
    PROVE  config'[k] \in Seq(ValuesOf(env)') /\ KeyWritten(k)'
<1> DEFINE new == Expand(env, ValueOf(Clean(line)))
<1>1. /\ LinesOf(k) \subseteq 1 .. n /\ IsFiniteSet(LinesOf(k)) /\ Cardinality(LinesOf(k)) \in Nat
      /\ \A i \in LinesOf(k) : NthOf(k, i) \in 1 .. Cardinality(LinesOf(k))
  BY LinesOfFinite
<1>2. new \in ValuesOf(env) /\ ValuesOf(env)' = ValuesOf(env)
  BY DEF ValuesOf
<1>3. /\ Len(old) = Cardinality(LinesOf(k))
      /\ \A i \in LinesOf(k) : old[NthOf(k, i)] = Expand(env, ValueOf(Clean(lines[i])))
  <2>1. CASE k \in DOMAIN config
    BY <2>1 DEF KeyWritten
  <2>2. CASE k \notin DOMAIN config
    BY <2>2, FS_EmptySet
  <2> QED
    BY <2>1, <2>2
<1> HIDE DEF new
<1>4. /\ config'[k] \in Seq(ValuesOf(env)) /\ Len(config'[k]) = Len(old) + 1
      /\ config'[k][Len(old) + 1] = new
      /\ \A c \in 1 .. Len(old) : config'[k][c] = old[c]
  <2>1. new \in ValuesOf(env) /\ old \in Seq(ValuesOf(env)) /\ config'[k] = Append(old, new)
    BY <1>2 DEF new
  <2> QED
    BY ONLY <2>1, AppendProperties
<1>5. Cardinality(LinesOf(k)') = Cardinality(LinesOf(k)) + 1
  <2>1. n + 1 \notin LinesOf(k) /\ IsFiniteSet(LinesOf(k))
    BY <1>1
  <2>2. Cardinality(LinesOf(k) \cup {n + 1}) = Cardinality(LinesOf(k)) + 1
    BY ONLY <2>1, FS_AddElement
  <2> QED
    BY <2>2
<1>6. ASSUME NEW i \in LinesOf(k)
      PROVE  config'[k][NthOf(k, i)'] = Expand(env, ValueOf(Clean(lines'[i])))
  <2>1. i \in 1 .. n /\ lines'[i] = lines[i]
    BY <1>1
  <2>2. LinesOf(k)' \cap 1 .. i = LinesOf(k) \cap 1 .. i
    BY <1>1, <2>1
  <2>3. NthOf(k, i)' = NthOf(k, i)
    BY <2>2 DEF NthOf
  <2> QED
    BY <1>1, <1>3, <1>4, <2>1, <2>3
<1>7. config'[k][NthOf(k, n + 1)'] = Expand(env, ValueOf(Clean(lines'[n + 1])))
  <2>1. LinesOf(k)' \cap 1 .. n + 1 = LinesOf(k)'
    BY <1>1
  <2>2. NthOf(k, n + 1)' = Len(old) + 1
    BY <1>3, <1>5, <2>1 DEF NthOf
  <2>3. lines'[n + 1] = line
    OBVIOUS
  <2> QED
    BY <1>4, <2>2, <2>3 DEF new
<1>8. KeyWritten(k)'
  BY <1>3, <1>4, <1>5, <1>6, <1>7 DEF KeyWritten
<1> QED
  BY <1>2, <1>4, <1>8

\* What is written, when nothing is read.
LEMMA SameLines ==
    ASSUME UNCHANGED <<lines, section, config, env>>
    PROVE  /\ NoLine' <=> NoLine
           /\ \A i : /\ HeadAt(i)' = HeadAt(i) /\ (PairAt(i)' <=> PairAt(i)) /\ Under(i)' = Under(i)
                     /\ HasLast(i)' <=> HasLast(i)
           /\ NoBadLine' <=> NoBadLine
           /\ \A k : LinesOf(k)' = LinesOf(k) /\ (KeyWritten(k)' <=> KeyWritten(k))
           /\ ValuesOf(env)' = ValuesOf(env)
<1>1. \A i : /\ HeadAt(i)' = HeadAt(i) /\ (PairAt(i)' <=> PairAt(i))
             /\ HasLast(i)' <=> HasLast(i)
  BY DEF HeadAt, SelectLastInSubSeq, PairAt, HasLast, Heads
<1>2. \A i : Under(i)' = Under(i)
  BY <1>1 DEF Under
<1>3. \A k : LinesOf(k)' = LinesOf(k)
  BY <1>1, <1>2 DEF LinesOf
<1>4. \A k : KeyWritten(k)' <=> KeyWritten(k)
  BY <1>3 DEF KeyWritten, NthOf
<1>5. (NoBadLine' <=> NoBadLine) /\ (NoLine' <=> NoLine)
  BY <1>1 DEF NoBadLine, NoLine
<1> QED
  BY <1>1, <1>2, <1>3, <1>4, <1>5 DEF ValuesOf

\* One line of the file: the values stay those of the lines read so far.
LEMMA NextLineWritten ==
    ASSUME Typed, Written, NEW line \in Lines, NextLine(line)
    PROVE  Written'
<1>1. PICK n \in Nat : n = Len(lines)
  BY DEF Typed
<1>2. lines \in Seq(Lines) /\ lines' = Append(lines,
   line) /\ (\A i \in 0 .. n : HasLast(i)) /\ UNCHANGED env
  BY <1>1 DEF Typed, Written, NextLine
<1>3. LongerBy(line, n)
  BY <1>1, <1>2, OneMoreLine
<1>4. Len(lines') = n + 1 /\ DOMAIN lines = 1 .. n /\ DOMAIN lines' = 1 .. n + 1
  BY <1>1, <1>2
<1>5. at = "lines" /\ at' \in {"lines", "badFile"} /\ NoBadLine
  BY DEF NextLine, Refuse, Written
<1>6. HeadAt(n) # 0 => HeadAt(n) \in 1 .. n
  BY <1>2, HeadFacts
<1>7. section = IF HeadAt(n) = 0 THEN <<>> ELSE SectionOf(Clean(lines[HeadAt(n)]))
  BY <1>1 DEF Written
<1>8. (section = <<>>) <=> HeadAt(n) = 0
  <2>1. ASSUME HeadAt(n) # 0
        PROVE  SectionOf(Clean(lines[HeadAt(n)])) # <<>>
    <3>1. HeadAt(n) \in Heads(n)
      BY <1>2, <2>1, HeadFacts
    <3> QED
      BY <3>1 DEF Heads, IsHead
  <2> QED
    BY <1>7, <2>1
<1>9. (at' = "badFile") <=> ~NoBadLine'
  <2>1. NoBadLine' <=> ~(PairAt(n + 1)' /\ HeadAt(n + 1)' = 0)
    <3>1. \A i \in 1 .. n + 1 : i \in 1 .. n \/ i = n + 1
      OBVIOUS
    <3>2. \A i \in 1 .. n : ~(PairAt(i)' /\ HeadAt(i)' = 0)
      BY <1>3, <1>4, <1>5 DEF LongerBy, NoBadLine
    <3> QED
      BY <1>4, <3>1, <3>2 DEF NoBadLine
  <2>2. (at' = "badFile") <=> (~IsHead(line) /\ KeyOf(Clean(line)) # <<>> /\ section = <<>>)
    BY <1>5 DEF NextLine, Refuse, IsHead
  <2>3. HeadAt(n + 1)' = 0 <=> ~IsHead(line) /\ section = <<>>
    BY <1>3, <1>8 DEF LongerBy
  <2> QED
    BY <1>3, <2>1, <2>2, <2>3 DEF LongerBy
<1>10. section' = IF HeadAt(n + 1)' = 0 THEN <<>> ELSE SectionOf(Clean(lines'[HeadAt(n + 1)']))
  <2>1. CASE IsHead(line)
    <3>1. section' = SectionOf(Clean(line))
      BY <2>1 DEF NextLine, IsHead
    <3>2. HeadAt(n + 1)' = n + 1 /\ n + 1 # 0 /\ lines'[n + 1] = line
      BY <1>3, <2>1 DEF LongerBy
    <3> QED
      BY <3>1, <3>2
  <2>2. CASE ~IsHead(line)
    <3>1. section' = section /\ HeadAt(n + 1)' = HeadAt(n)
      BY <1>3, <2>2 DEF LongerBy, NextLine, IsHead
    <3>2. HeadAt(n) # 0 => lines'[HeadAt(n)] = lines[HeadAt(n)]
      BY <1>3, <1>6 DEF LongerBy
    <3> QED
      BY <1>7, <3>1, <3>2
  <2> QED
    BY <2>1, <2>2
<1>11. /\ \A k : k \in DOMAIN config' <=> LinesOf(k)' # {}
       /\ \A k \in DOMAIN config' : config'[k] \in Seq(ValuesOf(env)') /\ KeyWritten(k)'
  <2> DEFINE Adds(k) == PairAt(n + 1)' /\ HeadAt(n + 1)' # 0 /\ Under(n + 1)' = k
  <2>1. \A k : LinesOf(k)' = IF Adds(k) THEN LinesOf(k) \cup {n + 1} ELSE LinesOf(k)
    BY <1>1, <1>2, OneMoreOf
  <2>2. /\ \A k : k \in DOMAIN config <=> LinesOf(k) # {}
        /\ \A k \in DOMAIN config : config[k] \in Seq(ValuesOf(env)) /\ KeyWritten(k)
    BY DEF Written
  <2>3. ValuesOf(env)' = ValuesOf(env)
    BY <1>2 DEF ValuesOf
  <2>4. CASE PairAt(n + 1)' /\ HeadAt(n + 1)' # 0
    <3> PICK key : key = <<section, KeyOf(Clean(line))>>
      OBVIOUS
    <3>1. ~IsHead(line) /\ section # <<>> /\ KeyOf(Clean(line)) # <<>>
      BY <1>3, <1>8, <2>4 DEF LongerBy
    <3>2. config' = Add(config, key, Expand(env, ValueOf(Clean(line))))
      BY <3>1 DEF NextLine, IsHead
    <3>3. Under(n + 1)' = key
      <4>1. HeadAt(n + 1)' = HeadAt(n) /\ HeadAt(n) # 0
        BY <1>3, <1>8, <3>1 DEF LongerBy
      <4>2. lines'[HeadAt(n)] = lines[HeadAt(n)]
        BY <1>3, <1>6, <4>1 DEF LongerBy
      <4> QED
        BY <1>3, <1>7, <4>1, <4>2 DEF LongerBy, Under
    <3>4. \A k : Adds(k) <=> k = key
      BY <2>4, <3>3
    <3>5. PICK old : old = IF key \in DOMAIN config THEN config[key] ELSE <<>>
      OBVIOUS
    <3>6. old \in Seq(ValuesOf(env))
      BY <2>2, <3>5
    <3>7. /\ DOMAIN config' = DOMAIN config \cup {key}
          /\ config'[key] = Append(old, Expand(env, ValueOf(Clean(line))))
          /\ \A k \in DOMAIN config : k # key => config'[k] = config[k]
      BY <3>2, <3>5 DEF Add
    <3>8. config'[key] \in Seq(ValuesOf(env)') /\ KeyWritten(key)'
      <4>1. LinesOf(key)' = LinesOf(key) \cup {n + 1}
        BY <2>1, <3>4
      <4> QED
        BY <1>1, <1>2, <2>2, <3>5, <3>6, <3>7, <4>1, KeyLonger
    <3>9. ASSUME NEW k \in DOMAIN config, k # key
          PROVE  config'[k] \in Seq(ValuesOf(env)') /\ KeyWritten(k)'
      BY <1>2, <2>1, <2>2, <2>3, <3>4, <3>7, <3>9, KeySame
    <3> QED
      BY <2>1, <2>2, <3>4, <3>7, <3>8, <3>9
  <2>5. CASE ~(PairAt(n + 1)' /\ HeadAt(n + 1)' # 0)
    <3>1. config' = config
      BY <1>3, <1>8, <2>5 DEF LongerBy, NextLine, IsHead
    <3>2. \A k : LinesOf(k)' = LinesOf(k)
      BY <2>1, <2>5
    <3> QED
      BY <1>2, <2>2, <2>3, <3>1, <3>2, KeySame
  <2> QED
    BY <2>4, <2>5
<1> QED
  BY <1>3, <1>4, <1>5, <1>9, <1>10, <1>11 DEF LongerBy, Written

-----------------------------------------------------------------------------
\* The last argument read needs a value, which is yet to come.
Waiting == /\ bare = <<>> /\ argv # <<>>
           /\ IsOption(argv[Len(argv)]) /\ NeedsValue(argv[Len(argv)])
\* p has the value it was first given.
ArgGiven(p) ==
    /\ (p.name \in DOMAIN args) <=> (Given(p) # {})
    /\ \A i \in Given(p) : (\A j \in Given(p) : i <= j) =>
          args[p.name] = IF p.value THEN argv[i + 1] ELSE <<>>

\* The arguments so far: what leads is what is not bare, no option is faulty, current is the option
\* that waits, and the parameters are as given.
Parsed ==
    /\ at \in {"args", "options", "printed"} =>
         /\ Len(bare) <= Len(argv) /\ Leading = 1 .. (Len(argv) - Len(bare))
         /\ bare = SubSeq(argv, Len(argv) - Len(bare) + 1, Len(argv))
         /\ \A i \in Options : ~Faulty(i)
         /\ Waiting <=> current # NoWord
         /\ Waiting => \E p \in Named(argv[Len(argv)]) : p.value /\ current = p.name
         /\ at # "args" => current = NoWord
         /\ \A p \in Parameters : ArgGiven(p)
    /\ at = "badArgument" => \E i \in Options : Faulty(i)
    /\ at \notin {"args", "options", "printed", "badArgument"} => argv = <<>>

\* The table of parameters: no two share a name, and none is named by the empty word.
LEMMA ParametersDiffer ==
    /\ \A p \in Parameters : p.name # NoWord
    /\ \A p, q \in Parameters : p.name = q.name => p = q
    /\ \A a : \A p, q \in Named(a) : p \in Parameters /\ p = q
<1>1. \A p, q \in Parameters : {p.name, p.short} \cap {q.name, q.short} # {} => p = q
  BY DEF Parameters
<1>2. \A p, q \in Parameters : p.name = q.name => p = q
  BY <1>1
<1>3. \A a : \A p, q \in Named(a) : p \in Parameters /\ p = q
  BY <1>1 DEF Named
<1>4. \A p \in Parameters : p.name \in {"help", "version", "config", "verbose"}
  BY DEF Parameters
<1>5. NoWord \notin {"help", "version", "config", "verbose"}
  BY Zenon DEF NoWord
<1> QED
  BY <1>2, <1>3, <1>4, <1>5

\* One more argument, the n+1st, when k of those before it are bare.
MoreArgs(a, n, k) ==
    /\ argv \in Seq(Arguments) /\ bare \in Seq(Arguments) /\ argv' = Append(argv, a)
    /\ n = Len(argv) /\ k = Len(bare) /\ Leading = 1 .. (n - k) /\ k <= n

\* What leads, is an option, and has a value among the arguments with the new one.
LongerArgs(a, n, k) ==
    /\ Len(argv') = n + 1 /\ DOMAIN argv = 1 .. n /\ DOMAIN argv' = 1 .. n + 1
    /\ argv'[n + 1] = a /\ \A i \in 1 .. n : argv'[i] = argv[i]
    /\ \A i \in 1 .. n : ValueAt(i)' <=> ValueAt(i)
    /\ ValueAt(n + 1)' <=> n > 0 /\ IsOption(argv[n]) /\ NeedsValue(argv[n]) /\ ~IsOption(a)
    /\ Leading' = IF k = 0 /\ (IsOption(a) \/ ValueAt(n + 1)') THEN 1 .. n + 1 ELSE Leading
    /\ \A i \in 1 .. n : i \in Options' <=> i \in Options
    /\ n + 1 \in Options' <=> k = 0 /\ IsOption(a)
    /\ n \in Options => k = 0 /\ n > 0 /\ IsOption(argv[n])
    /\ Options \subseteq 1 .. n /\ Options' \subseteq 1 .. n + 1

\* An argument that is appended leads if all before it do, and leaves those before it as they were.
LEMMA OneMoreArg ==
    ASSUME NEW a, NEW n \in Nat, NEW k \in Nat, MoreArgs(a, n, k)
    PROVE  LongerArgs(a, n, k)
<1>1. /\ Len(argv') = n + 1 /\ DOMAIN argv = 1 .. n /\ DOMAIN argv' = 1 .. n + 1
      /\ argv'[n + 1] = a /\ \A i \in 1 .. n : argv'[i] = argv[i]
  BY DEF MoreArgs
<1>2. Leading = 1 .. (n - k) /\ k <= n /\ Len(argv) = n
  BY DEF MoreArgs
<1>3. \A i \in 1 .. n : ValueAt(i)' <=> ValueAt(i)
  <2> SUFFICES ASSUME NEW i \in 1 .. n
               PROVE  ValueAt(i)' <=> ValueAt(i)
    OBVIOUS
  <2>1. CASE i = 1
    BY <1>1, <1>2, <2>1 DEF ValueAt
  <2>2. CASE i # 1
    <3>1. i - 1 \in 1 .. n /\ i \in 2 .. n /\ i \in 2 .. n + 1
      BY <2>2
    <3>2. argv'[i] = argv[i] /\ argv'[i - 1] = argv[i - 1]
      BY <1>1, <3>1
    <3> QED
      BY <1>1, <1>2, <3>1, <3>2 DEF ValueAt
  <2> QED
    BY <2>1, <2>2
<1>4. ValueAt(n + 1)' <=> n > 0 /\ IsOption(argv[n]) /\ NeedsValue(argv[n]) /\ ~IsOption(a)
  <2>1. (n + 1) - 1 = n /\ (n + 1 \in 2 .. n + 1 <=> n > 0)
    OBVIOUS
  <2>2. n > 0 => argv'[n] = argv[n]
    BY <1>1
  <2> QED
    BY <1>1, <2>1, <2>2 DEF ValueAt
<1>5. \A i \in 1 .. n : i \in Leading' <=> i \in Leading
  <2> SUFFICES ASSUME NEW i \in 1 .. n
               PROVE  i \in Leading' <=> i \in Leading
    OBVIOUS
  <2>1. \A j \in 1 .. i : j \in 1 .. n
    OBVIOUS
  <2>2. \A j \in 1 .. i : (IsOption(argv'[j]) \/ ValueAt(j)') <=> (IsOption(argv[j]) \/ ValueAt(j))
    BY <1>1, <1>3, <2>1
  <2> QED
    BY <1>1, <2>2 DEF Leading
<1>6. n + 1 \in Leading' <=> k = 0 /\ (IsOption(a) \/ ValueAt(n + 1)')
  <2>1. n + 1 \in Leading' <=> \A j \in 1 .. n + 1 : IsOption(argv'[j]) \/ ValueAt(j)'
    BY <1>1 DEF Leading
  <2>2. (\A j \in 1 .. n : IsOption(argv'[j]) \/ ValueAt(j)') <=> k = 0
    <3>1. CASE n = 0
      BY <1>2, <3>1
    <3>2. CASE n # 0
      <4>1. n \in Leading' <=> \A j \in 1 .. n : IsOption(argv'[j]) \/ ValueAt(j)'
        BY <1>1, <3>2 DEF Leading
      <4>2. n \in Leading <=> k = 0
        BY <1>2, <3>2
      <4>3. n \in 1 .. n
        BY <3>2
      <4> QED
        BY <1>5, <4>1, <4>2, <4>3
    <3> QED
      BY <3>1, <3>2
  <2>3. \A j \in 1 .. n + 1 : j \in 1 .. n \/ j = n + 1
    OBVIOUS
  <2>4. \A j \in 1 .. n : j \in 1 .. n + 1
    OBVIOUS
  <2>5. n + 1 \in 1 .. n + 1
    OBVIOUS
  <2> QED
    BY <1>1, <2>1, <2>2, <2>3, <2>4, <2>5
<1>7. Leading' = IF k = 0 /\ (IsOption(a) \/ ValueAt(n + 1)') THEN 1 .. n + 1 ELSE Leading
  <2>1. Leading' \subseteq 1 .. n + 1 /\ Leading \subseteq 1 .. n
    BY <1>1 DEF Leading
  <2>2. \A j \in 1 .. n + 1 : j \in 1 .. n \/ j = n + 1
    OBVIOUS
  <2>3. CASE n + 1 \in Leading'
    <3>1. k = 0
      BY <1>6, <2>3
    <3>2. Leading = 1 .. n
      BY <1>2, <3>1
    <3>3. Leading' = 1 .. n + 1
      BY <1>5, <2>1, <2>2, <2>3, <3>2
    <3> QED
      BY <1>6, <2>3, <3>3
  <2>4. CASE n + 1 \notin Leading'
    <3>1. Leading' = Leading
      BY <1>5, <2>1, <2>2, <2>4
    <3> QED
      BY <1>6, <2>4, <3>1
  <2> QED
    BY <2>3, <2>4
<1>8. \A i \in 1 .. n : i \in Options' <=> i \in Options
  BY <1>1, <1>5 DEF Options
<1>9. n + 1 \in Options' <=> k = 0 /\ IsOption(a)
  BY <1>1, <1>6 DEF Options
<1>10. n \in Options => k = 0 /\ n > 0 /\ IsOption(argv[n])
  BY <1>2 DEF Options
<1>11. Options \subseteq 1 .. n /\ Options' \subseteq 1 .. n + 1
  BY <1>1 DEF Options, Leading
<1> QED
  BY <1>1, <1>3, <1>4, <1>7, <1>8, <1>9, <1>10, <1>11 DEF LongerArgs

\* Where p is given, when one argument more is known: the option before it has its value now.
LEMMA GivenNext ==
    ASSUME NEW a, NEW n \in Nat, NEW k \in Nat, MoreArgs(a, n, k), NEW p
    PROVE  /\ \A i \in 1 .. n + 1 : i # n /\ i # n + 1 => (i \in Given(p)' <=> i \in Given(p))
           /\ n + 1 \in Given(p)' <=> k = 0 /\ IsOption(a) /\ p \in Named(a) /\ ~p.value
           /\ n \in Given(p)' <=> /\ n \in Options /\ p \in Named(argv[n])
                                  /\ p.value => ~IsOption(a)
           /\ n \in Given(p) <=> n \in Options /\ p \in Named(argv[n]) /\ ~p.value
           /\ Given(p) \subseteq 1 .. n /\ Given(p)' \subseteq 1 .. n + 1
<1>1. LongerArgs(a, n, k)
  BY OneMoreArg
<1>2. Given(p) \subseteq 1 .. n /\ Given(p)' \subseteq 1 .. n + 1
  BY <1>1 DEF LongerArgs, Given
<1>3. ~ValueAt(n + 1) /\ ~ValueAt(n + 2)' /\ (n + 1) + 1 = n + 2
  BY <1>1 DEF LongerArgs, MoreArgs, ValueAt
<1>4. ASSUME NEW i \in 1 .. n + 1, i # n, i # n + 1
      PROVE  i \in Given(p)' <=> i \in Given(p)
  <2>1. i \in 1 .. n /\ i + 1 \in 1 .. n
    BY <1>4
  <2>2. (i \in Options' <=> i \in Options) /\ argv'[i] = argv[i] /\ (ValueAt(i + 1)' <=> ValueAt(i + 1))
    BY <1>1, <2>1 DEF LongerArgs
  <2> QED
    BY <2>2 DEF Given
<1>5. n + 1 \in Given(p)' <=> k = 0 /\ IsOption(a) /\ p \in Named(a) /\ ~p.value
  <2>1. n + 1 \in Options' <=> k = 0 /\ IsOption(a)
    BY <1>1 DEF LongerArgs
  <2>2. argv'[n + 1] = a
    BY <1>1 DEF LongerArgs
  <2> QED
    BY <1>3, <2>1, <2>2 DEF Given
<1>6. n \in Given(p) <=> n \in Options /\ p \in Named(argv[n]) /\ ~p.value
  BY <1>3 DEF Given
<1>7. n \in Given(p)' <=> /\ n \in Options /\ p \in Named(argv[n])
                          /\ p.value => ~IsOption(a)
  <2>1. CASE n = 0
    <3>1. n \notin Options /\ n \notin Given(p)'
      BY <1>1, <1>2, <2>1 DEF LongerArgs
    <3> QED
      BY <3>1
  <2>2. CASE n # 0
    <3>1. n \in 1 .. n
      BY <2>2
    <3>2. (n \in Options' <=> n \in Options) /\ argv'[n] = argv[n]
      BY <1>1, <3>1 DEF LongerArgs
    <3>3. n \in Options => (ValueAt(n + 1)' <=> NeedsValue(argv[n]) /\ ~IsOption(a))
      BY <1>1 DEF LongerArgs
    <3>4. p \in Named(argv[n]) /\ p.value => NeedsValue(argv[n])
      BY DEF NeedsValue
    <3> QED
      BY <3>2, <3>3, <3>4 DEF Given
  <2> QED
    BY <2>1, <2>2
<1> QED
  BY <1>2, <1>4, <1>5, <1>6, <1>7

-----------------------------------------------------------------------------
\* A parameter that is not given again keeps its value.
LEMMA ArgSame ==
    ASSUME NEW a, NEW n \in Nat, NEW k \in Nat, MoreArgs(a, n, k), NEW p \in Parameters,
           Given(p)' = Given(p), p.name \in DOMAIN args' <=> p.name \in DOMAIN args,
           p.name \in DOMAIN args => args'[p.name] = args[p.name], ArgGiven(p)
    PROVE  ArgGiven(p)'
<1>1. LongerArgs(a, n, k) /\ Given(p) \subseteq 1 .. n
  BY OneMoreArg, GivenNext
<1>2. ASSUME NEW i \in Given(p), p.value
      PROVE  argv'[i + 1] = argv[i + 1]
  <2>1. i + 1 \in 1 .. n
    BY <1>1, <1>2 DEF Given, ValueAt, MoreArgs
  <2> QED
    BY <1>1, <2>1 DEF LongerArgs
<1>3. ASSUME NEW i \in Given(p), \A j \in Given(p) : i <= j
      PROVE  args'[p.name] = IF p.value THEN argv'[i + 1] ELSE <<>>
  <2>1. args[p.name] = IF p.value THEN argv[i + 1] ELSE <<>>
    BY <1>3 DEF ArgGiven
  <2>2. args'[p.name] = args[p.name]
    BY <1>3 DEF ArgGiven
  <2> QED
    BY <1>2, <2>1, <2>2
<1>4. p.name \in DOMAIN args' <=> Given(p)' # {}
  BY DEF ArgGiven
<1> QED
  BY <1>3, <1>4 DEF ArgGiven

\* A parameter that is given keeps the value it was given first.
LEMMA ArgNew ==
    ASSUME NEW a, NEW n \in Nat, NEW k \in Nat, MoreArgs(a, n, k), NEW p \in Parameters,
           NEW m \in Nat, Given(p)' = Given(p) \cup {m}, \A j \in Given(p) : j < m, ArgGiven(p),
           NEW v, v = (IF p.value THEN argv'[m + 1] ELSE <<>>), args' = Emplace(args, p.name, v)
    PROVE  ArgGiven(p)'
<1>1. LongerArgs(a, n, k) /\ Given(p) \subseteq 1 .. n
  BY OneMoreArg, GivenNext
<1>2. p.name \in DOMAIN args' /\ args'[p.name] = IF p.name \in DOMAIN args THEN args[p.name] ELSE v
  BY DEF Emplace
<1>3. ASSUME NEW i \in Given(p)', \A j \in Given(p)' : i <= j
      PROVE  args'[p.name] = IF p.value THEN argv'[i + 1] ELSE <<>>
  <2>1. CASE Given(p) = {}
    <3>1. i = m /\ p.name \notin DOMAIN args
      BY <2>1 DEF ArgGiven
    <3> QED
      BY <1>2, <3>1
  <2>2. CASE Given(p) # {}
    <3>1. i \in Given(p)
      <4>1. PICK j \in Given(p) : j < m
        BY <2>2
      <4>2. j \in Given(p)' /\ j \in Nat
        BY <1>1, <4>1
      <4>3. i # m
        BY <1>3, <4>1, <4>2
      <4> QED
        BY <4>3
    <3>2. \A j \in Given(p) : i <= j
      BY <1>3
    <3>3. args[p.name] = (IF p.value THEN argv[i + 1] ELSE <<>>) /\ p.name \in DOMAIN args
      BY <2>2, <3>1, <3>2 DEF ArgGiven
    <3>4. p.value => argv'[i + 1] = argv[i + 1]
      <4>1. p.value => i + 1 \in 1 .. n
        BY <1>1, <3>1 DEF Given, ValueAt, MoreArgs
      <4> QED
        BY <1>1, <4>1 DEF LongerArgs
    <3> QED
      BY <1>2, <3>3, <3>4
  <2> QED
    BY <2>1, <2>2
<1>4. Given(p)' # {}
  OBVIOUS
<1> QED
  BY <1>2, <1>3, <1>4 DEF ArgGiven

\* An option that was right stays right, unless it waited and the next argument is an option too.
LEMMA FaultyNext ==
    ASSUME NEW a, NEW n \in Nat, NEW k \in Nat, MoreArgs(a, n, k), NEW i \in Options, ~Faulty(i),
           i = n => ~(NeedsValue(argv[n]) /\ IsOption(a))
    PROVE  ~Faulty(i)'
<1>1. LongerArgs(a, n, k) /\ i \in 1 .. n /\ Len(argv) = n
  <2>1. LongerArgs(a, n, k)
    BY OneMoreArg
  <2>2. i \in 1 .. n
    BY <2>1 DEF LongerArgs
  <2> QED
    BY <2>1, <2>2 DEF MoreArgs
<1>2. argv'[i] = argv[i] /\ Len(argv') = n + 1 /\ i < n + 1
  BY <1>1 DEF LongerArgs
<1>3. NeedsValue(argv[i]) => ValueAt(i + 1)'
  <2>1. CASE i = n
    BY <1>1, <2>1 DEF LongerArgs
  <2>2. CASE i # n
    <3>1. i < n /\ i + 1 \in 1 .. n
      BY <1>1, <2>2
    <3>2. NeedsValue(argv[i]) => ValueAt(i + 1)
      BY <1>1, <3>1 DEF Faulty
    <3> QED
      BY <1>1, <3>1, <3>2 DEF LongerArgs
  <2> QED
    BY <2>1, <2>2
<1>4. Named(argv'[i]) # {}
  BY <1>2 DEF Faulty
<1>5. NeedsValue(argv'[i]) => i < Len(argv') /\ ValueAt(i + 1)'
  BY <1>2, <1>3
<1> QED
  BY ONLY <1>4, <1>5 DEF Faulty

\* A sequence's tail, with one element more.
LEMMA TailAppend ==
    ASSUME NEW S, NEW s \in Seq(S), NEW e \in S, NEW m \in 1 .. Len(s) + 1
    PROVE  Append(SubSeq(s, m, Len(s)), e) = SubSeq(Append(s, e), m, Len(s) + 1)
<1>1. PICK n \in Nat : n = Len(s)
  OBVIOUS
<1>2. PICK u : u = Append(s, e)
  OBVIOUS
<1>3. /\ u \in Seq(S) /\ Len(u) = n + 1 /\ u[n + 1] = e
      /\ \A i \in 1 .. n : u[i] = s[i]
  BY <1>1, <1>2, AppendProperties
<1>4. PICK t : t = SubSeq(s, m, n)
  OBVIOUS
<1>5. m \in Int /\ n \in Int /\ \A i \in m .. n : s[i] \in S
  <2>1. \A i \in m .. n : i \in 1 .. Len(s)
    BY ONLY <1>1, m \in 1 .. Len(s) + 1
  <2> QED
    BY ONLY <1>1, <2>1, m \in 1 .. Len(s) + 1, s \in Seq(S)
<1>6. /\ t \in Seq(S) /\ Len(t) = n - m + 1
      /\ \A i \in 1 .. n - m + 1 : t[i] = s[m + i - 1]
  BY <1>1, <1>4, <1>5, SubSeqProperties
<1>7. PICK v : v = SubSeq(u, m, n + 1)
  OBVIOUS
<1>8. m \in Int /\ n + 1 \in Int /\ \A i \in m .. n + 1 : u[i] \in S
  BY <1>3, <1>5
<1>9. /\ v \in Seq(S) /\ Len(v) = n + 1 - m + 1
      /\ \A i \in 1 .. n + 1 - m + 1 : v[i] = u[m + i - 1]
  BY <1>1, <1>7, <1>8, SubSeqProperties
<1>10. PICK w : w = Append(t, e)
  OBVIOUS
<1>11. /\ w \in Seq(S) /\ Len(w) = n - m + 2 /\ w[n - m + 2] = e
       /\ \A i \in 1 .. n - m + 1 : w[i] = t[i]
  <2>1. t \in Seq(S) /\ e \in S
    BY <1>6
  <2>2. /\ Append(t, e) \in Seq(S) /\ Append(t, e)[Len(t) + 1] = e
        /\ Len(Append(t, e)) = Len(t) + 1 /\ \A i \in 1 .. Len(t) : Append(t, e)[i] = t[i]
    BY ONLY <2>1, AppendProperties
  <2>3. Len(t) = n - m + 1 /\ (n - m + 1) + 1 = n - m + 2
    BY ONLY <1>1, <1>6, m \in 1 .. Len(s) + 1
  <2> QED
    BY ONLY <1>10, <2>2, <2>3
<1>12. ASSUME NEW i \in 1 .. n - m + 2
       PROVE  w[i] = v[i]
  <2>1. CASE i = n - m + 2
    <3>1. v[i] = u[n + 1]
      BY ONLY <1>1, <1>9, <2>1, m \in 1 .. Len(s) + 1
    <3> QED
      BY <1>3, <1>11, <2>1, <3>1
  <2>2. CASE i # n - m + 2
    <3>1. i \in 1 .. n - m + 1 /\ i \in 1 .. n + 1 - m + 1 /\ m + i - 1 \in 1 .. n
      BY ONLY <1>1, <2>2, m \in 1 .. Len(s) + 1, i \in 1 .. n - m + 2
    <3> QED
      BY ONLY <1>3, <1>6, <1>9, <1>11, <3>1
  <2> QED
    BY <2>1, <2>2
<1>13. Len(v) = Len(w)
  BY ONLY <1>1, <1>9, <1>11, m \in 1 .. Len(s) + 1
<1>14. w = v
  BY <1>9, <1>11, <1>12, <1>13, SeqEqual
<1> QED
  BY <1>1, <1>2, <1>4, <1>7, <1>10, <1>14

\* Sets of positions that differ at most at the last two.
LEMMA LastTwo ==
    ASSUME NEW n \in Nat, NEW S, NEW T, S \subseteq 1 .. n, T \subseteq 1 .. n + 1, n + 1 \notin T,
           \A i \in 1 .. n + 1 : i # n /\ i # n + 1 => (i \in T <=> i \in S)
    PROVE  /\ (n \in T <=> n \in S) => T = S
           /\ n \in T => T = S \cup {n}
<1>1. \A i \in T : i \in 1 .. n + 1 /\ i # n + 1 /\ (i # n => i \in S)
  OBVIOUS
<1>2. \A i \in S : i \in 1 .. n + 1 /\ i # n + 1 /\ (i # n => i \in T)
  OBVIOUS
<1> QED
  BY ONLY <1>1, <1>2

\* One turn of the loop over argv: the parameters stay those of the arguments read so far.
LEMMA NextArgParsed ==
    ASSUME Typed, Parsed, NEW a \in Arguments, NextArg(a)
    PROVE  Parsed'
<1>1. PICK n \in Nat, k \in Nat : n = Len(argv) /\ k = Len(bare)
  BY DEF Typed
<1>2. /\ at = "args" /\ argv' = Append(argv, a)
      /\ at' = "args" \/ at' = "badArgument"
  BY DEF NextArg, Refuse
<1>3. /\ k <= n /\ Leading = 1 .. (n - k) /\ bare = SubSeq(argv, n - k + 1, n)
      /\ \A i \in Options : ~Faulty(i)
      /\ Waiting <=> current # NoWord
      /\ Waiting => \E p \in Named(argv[n]) : p.value /\ current = p.name
      /\ \A p \in Parameters : ArgGiven(p)
  BY <1>1, <1>2 DEF Parsed
<1>4. MoreArgs(a, n, k)
  BY <1>1, <1>2, <1>3 DEF MoreArgs, Typed
<1>5. LongerArgs(a, n, k)
  BY <1>4, OneMoreArg
<1>6. /\ Waiting <=> k = 0 /\ n > 0 /\ IsOption(argv[n]) /\ NeedsValue(argv[n])
      /\ bare = <<>> <=> k = 0
  <2>1. (bare = <<>> <=> k = 0) /\ (argv = <<>> <=> n = 0)
    BY <1>1 DEF Typed
  <2> QED
    BY <1>1, <2>1 DEF Waiting
<1>7. Waiting' <=> bare' = <<>> /\ IsOption(a) /\ NeedsValue(a)
  BY <1>5 DEF Waiting, LongerArgs
<1>8. argv'[Len(argv')] = a
  BY <1>5 DEF LongerArgs
<1>9. ASSUME IsOption(a), k = 0, Waiting \/ Named(a) = {}, at' = "badArgument"
      PROVE  Parsed'
  <2>1. ASSUME Named(a) = {}
        PROVE  \E i \in Options' : Faulty(i)'
    <3>1. n + 1 \in Options' /\ argv'[n + 1] = a
      BY <1>5, <1>9 DEF LongerArgs
    <3>2. Faulty(n + 1)'
      BY <2>1, <3>1 DEF Faulty
    <3> QED
      BY <3>1, <3>2
  <2>2. ASSUME Waiting
        PROVE  \E i \in Options' : Faulty(i)'
    <3>1. n \in 1 .. n /\ IsOption(argv[n]) /\ NeedsValue(argv[n]) /\ n \in Leading
      BY <1>3, <1>6, <1>9, <2>2
    <3>2. n \in Options /\ argv'[n] = argv[n] /\ Len(argv') = n + 1
      BY <1>5, <3>1 DEF Options, LongerArgs
    <3>3. n \in Options' /\ ~ValueAt(n + 1)'
      BY <1>5, <1>9, <3>1, <3>2 DEF LongerArgs
    <3>4. Faulty(n)'
      BY <3>1, <3>2, <3>3 DEF Faulty
    <3> QED
      BY <3>3, <3>4
  <2> QED
    BY <1>9, <2>1, <2>2 DEF Parsed
<1>10. ASSUME IsOption(a), k = 0, ~Waiting, NEW p \in Named(a), at' = "args", bare' = bare,
              IF p.value THEN current' = p.name /\ UNCHANGED args
                         ELSE args' = Emplace(args, p.name, <<>>) /\ UNCHANGED current
       PROVE  Parsed'
  <2>1. bare = <<>> /\ Len(bare') = 0 /\ Leading' = 1 .. (n + 1)
    BY <1>1, <1>5, <1>6, <1>10 DEF LongerArgs
  <2>2. bare' = SubSeq(argv', (n + 1) + 1, n + 1)
    BY <1>5, <2>1, <1>10, SubSeqEmpty DEF LongerArgs
  <2>3. NeedsValue(a) <=> p.value
    BY <1>10, ParametersDiffer DEF NeedsValue
  <2>4. ASSUME NEW i \in Options'
        PROVE  ~Faulty(i)'
    <3>1. CASE i = n + 1
      <4>1. argv'[i] = a /\ Len(argv') = i
        BY <1>5, <3>1 DEF LongerArgs
      <4> QED
        BY <1>10, <4>1 DEF Faulty
    <3>2. CASE i # n + 1
      <4>1. i \in Options
        BY <1>5, <3>2 DEF LongerArgs
      <4>2. i = n => ~NeedsValue(argv[n])
        BY <1>5, <1>6, <1>10, <4>1 DEF LongerArgs
      <4> QED
        BY <1>3, <1>4, <4>1, <4>2, FaultyNext
    <3> QED
      BY <3>1, <3>2
  <2>5. p \in Parameters /\ p.name # NoWord
    BY ParametersDiffer
  <2>6. current = NoWord
    BY <1>3, <1>10
  <2>7. (Waiting' <=> current' # NoWord) /\ (Waiting' => current' = p.name /\ p.value)
    BY <1>6, <1>7, <1>10, <2>1, <2>3, <2>5, <2>6
  <2>8. ASSUME NEW q \in Parameters
        PROVE  ArgGiven(q)'
    <3>1. n \in Given(q)' <=> n \in Given(q)
      <4>1. n \in Options => ~NeedsValue(argv[n])
        BY <1>5, <1>6, <1>10 DEF LongerArgs
      <4>2. q \in Named(argv[n]) /\ q.value => NeedsValue(argv[n])
        BY DEF NeedsValue
      <4> QED
        BY <1>4, <4>1, <4>2, GivenNext
    <3>2. n + 1 \in Given(q)' <=> q = p /\ ~p.value
      <4>1. q \in Named(a) <=> q = p
        BY ParametersDiffer
      <4> QED
        BY <1>4, <1>10, <4>1, GivenNext
    <3>3. Given(q)' = IF q = p /\ ~p.value THEN Given(q) \cup {n + 1} ELSE Given(q)
      <4>1. /\ Given(q) \subseteq 1 .. n /\ Given(q)' \subseteq 1 .. n + 1
            /\ \A i \in 1 .. n + 1 : i # n /\ i # n + 1 => (i \in Given(q)' <=> i \in Given(q))
        BY <1>4, GivenNext
      <4>2. n + 1 \notin Given(q)
        BY <4>1
      <4> QED
        BY <3>1, <3>2, <4>1, <4>2
    <3>4. CASE q = p /\ ~p.value
      <4>1. Given(q)' = Given(q) \cup {n + 1} /\ \A j \in Given(q) : j < n + 1
        BY <1>4, <3>3, <3>4, GivenNext
      <4>2. args' = Emplace(args, q.name, <<>>) /\ ~q.value
        BY <1>10, <3>4
      <4>3. ArgGiven(q) /\ n + 1 \in Nat
        BY <1>3
      <4> QED
        BY <1>4, <4>1, <4>2, <4>3, ArgNew
    <3>5. CASE ~(q = p /\ ~p.value)
      <4>1. Given(q)' = Given(q) /\ ArgGiven(q)
        BY <1>3, <3>3, <3>5
      <4>2. /\ q.name \in DOMAIN args' <=> q.name \in DOMAIN args
            /\ q.name \in DOMAIN args => args'[q.name] = args[q.name]
        <5>1. CASE p.value
          BY <1>10, <5>1
        <5>2. CASE ~p.value
          <6>1. q.name # p.name
            BY <2>5, <3>5, <5>2, ParametersDiffer
          <6> QED
            BY <1>10, <5>2, <6>1 DEF Emplace
        <5> QED
          BY <5>1, <5>2
      <4> QED
        BY <1>4, <4>1, <4>2, ArgSame
    <3> QED
      BY <3>4, <3>5
  <2>9. Len(argv') = n + 1 /\ p \in Named(argv'[Len(argv')])
    BY <1>5, <1>8 DEF LongerArgs
  <2> QED
    BY <1>10, <2>1, <2>2, <2>4, <2>7, <2>8, <2>9 DEF Parsed
<1>11. ASSUME ~IsOption(a) \/ k # 0, ~Waiting, at' = "args", bare' = Append(bare, a),
              UNCHANGED <<current, args>>
       PROVE  Parsed'
  <2>1. Len(bare') = k + 1 /\ bare' # <<>>
    BY <1>1, <1>11 DEF Typed
  <2>2. ~(k = 0 /\ (IsOption(a) \/ ValueAt(n + 1)'))
    BY <1>5, <1>6, <1>11 DEF LongerArgs
  <2>3. Leading' = 1 .. (n - k)
    BY <1>3, <1>5, <2>2 DEF LongerArgs
  <2>4. bare' = SubSeq(argv', n - k + 1, n + 1)
    <3>1. /\ argv \in Seq(Arguments) /\ a \in Arguments
          /\ Len(argv) = n /\ n - k + 1 \in 1 .. Len(argv) + 1
      <4>1. argv \in Seq(Arguments) /\ Len(argv) = n /\ k \in 0 .. n
        BY ONLY <1>1, <1>3, Typed, n \in Nat, k \in Nat DEF Typed
      <4> QED
        BY ONLY <4>1, n \in Nat, a \in Arguments
    <3>2. Append(SubSeq(argv, n - k + 1, n), a) = SubSeq(Append(argv, a), n - k + 1, n + 1)
      BY ONLY <3>1, TailAppend
    <3> QED
      BY <1>2, <1>3, <1>11, <3>2
  <2>5. ASSUME NEW i \in Options'
        PROVE  ~Faulty(i)'
    <3>1. i \in Options
      <4>1. n + 1 \notin Options'
        BY <1>5, <1>11 DEF LongerArgs
      <4> QED
        BY <1>5, <4>1 DEF LongerArgs
    <3>2. i = n => ~(NeedsValue(argv[n]) /\ IsOption(a))
      BY <1>5, <1>6, <1>11, <3>1 DEF LongerArgs
    <3> QED
      BY <1>3, <1>4, <3>1, <3>2, FaultyNext
  <2>6. ~Waiting' /\ current' = NoWord
    BY <1>3, <1>7, <1>11, <2>1
  <2>7. ASSUME NEW q \in Parameters
        PROVE  ArgGiven(q)'
    <3>1. n + 1 \notin Given(q)'
      BY <1>4, <1>11, GivenNext
    <3>2. n \in Given(q)' <=> n \in Given(q)
      <4>1. n \in Options => ~NeedsValue(argv[n])
        BY <1>5, <1>6, <1>11 DEF LongerArgs
      <4>2. q \in Named(argv[n]) /\ q.value => NeedsValue(argv[n])
        BY DEF NeedsValue
      <4> QED
        BY <1>4, <4>1, <4>2, GivenNext
    <3>3. Given(q)' = Given(q)
      <4>1. /\ Given(q) \subseteq 1 .. n /\ Given(q)' \subseteq 1 .. n + 1
            /\ \A i \in 1 .. n + 1 : i # n /\ i # n + 1 => (i \in Given(q)' <=> i \in Given(q))
        BY <1>4, GivenNext
      <4> QED
        BY ONLY <3>1, <3>2, <4>1, LastTwo, n \in Nat
    <3>4. ArgGiven(q)
      BY <1>3
    <3>5. /\ q.name \in DOMAIN args' <=> q.name \in DOMAIN args
          /\ q.name \in DOMAIN args => args'[q.name] = args[q.name]
      BY <1>11
    <3> QED
      BY ONLY <1>4, <3>3, <3>4, <3>5, ArgSame, n \in Nat, k \in Nat, q \in Parameters
  <2>8. Len(argv') = n + 1 /\ n - k = (n + 1) - (k + 1) /\ k + 1 <= n + 1
    BY <1>3, <1>5 DEF LongerArgs
  <2> QED
    BY <1>11, <2>1, <2>3, <2>4, <2>5, <2>6, <2>7, <2>8 DEF Parsed
<1>12. ASSUME ~IsOption(a) \/ k # 0, Waiting, at' = "args", bare' = bare,
              args' = Emplace(args, current, a), current' = NoWord
       PROVE  Parsed'
  <2>1. k = 0 /\ ~IsOption(a) /\ n > 0 /\ IsOption(argv[n]) /\ NeedsValue(argv[n])
    BY <1>6, <1>12
  <2>2. PICK p \in Named(argv[n]) : p.value /\ current = p.name
    BY <1>3, <1>12
  <2>3. p \in Parameters /\ \A q \in Named(argv[n]) : q = p
    BY ParametersDiffer
  <2>4. Leading' = 1 .. (n + 1) /\ Len(bare') = 0 /\ bare' = <<>>
    BY <1>1, <1>5, <1>6, <1>12, <2>1 DEF LongerArgs
  <2>5. bare' = SubSeq(argv', (n + 1) + 1, n + 1)
    BY <1>5, <2>4, SubSeqEmpty DEF LongerArgs
  <2>6. ASSUME NEW i \in Options'
        PROVE  ~Faulty(i)'
    <3>1. i \in Options
      BY <1>5, <2>1 DEF LongerArgs
    <3>2. ~Faulty(i) /\ (i = n => ~(NeedsValue(argv[n]) /\ IsOption(a)))
      BY <1>3, <2>1, <3>1
    <3> QED
      BY ONLY <1>4, <3>1, <3>2, FaultyNext, n \in Nat, k \in Nat
  <2>7. n \in Options
    <3>1. n \in Leading
      BY ONLY <1>3, <2>1, n \in Nat
    <3> QED
      BY <2>1, <3>1 DEF Options
  <2>8. ASSUME NEW q \in Parameters
        PROVE  ArgGiven(q)'
    <3>1. n + 1 \notin Given(q)'
      BY <1>4, <2>1, GivenNext
    <3>2. (n \in Given(q)' <=> q = p) /\ n \notin Given(q)
      <4>1. q \in Named(argv[n]) <=> q = p
        BY <2>3
      <4>2. (n \in Given(q)' <=> q = p) /\ (n \in Given(q) <=> q = p /\ ~q.value)
        BY <1>4, <2>1, <2>7, <4>1, GivenNext
      <4> QED
        BY <2>2, <4>2
    <3>3. (q = p => Given(q)' = Given(q) \cup {n}) /\ (q # p => Given(q)' = Given(q))
      <4>1. /\ Given(q) \subseteq 1 .. n /\ Given(q)' \subseteq 1 .. n + 1
            /\ \A i \in 1 .. n + 1 : i # n /\ i # n + 1 => (i \in Given(q)' <=> i \in Given(q))
        BY <1>4, GivenNext
      <4> QED
        BY ONLY <3>1, <3>2, <4>1, LastTwo, n \in Nat
    <3>4. CASE q = p
      <4>1. Given(q)' = Given(q) \cup {n} /\ \A j \in Given(q) : j < n
        BY <1>4, <3>2, <3>3, <3>4, GivenNext
      <4>2. a = argv'[n + 1] /\ q.value /\ args' = Emplace(args, q.name, a)
        BY <1>5, <1>12, <2>2, <3>4 DEF LongerArgs
      <4>3. ArgGiven(q)
        BY <1>3
      <4>4. args' = Emplace(args, q.name, IF q.value THEN argv'[n + 1] ELSE <<>>)
        BY <4>2
      <4> QED
        BY ONLY <1>4, <4>1, <4>3, <4>4, ArgNew, n \in Nat, k \in Nat, q \in Parameters
    <3>5. CASE q # p
      <4>1. Given(q)' = Given(q) /\ ArgGiven(q)
        BY <1>3, <3>3, <3>5
      <4>2. q.name # p.name
        BY <2>3, <3>5, ParametersDiffer
      <4>3. /\ q.name \in DOMAIN args' <=> q.name \in DOMAIN args
            /\ q.name \in DOMAIN args => args'[q.name] = args[q.name]
        BY <1>12, <2>2, <4>2 DEF Emplace
      <4> QED
        BY <1>4, <4>1, <4>3, ArgSame
    <3> QED
      BY <3>4, <3>5
  <2>9. ~Waiting' /\ Len(argv') = n + 1
    BY <1>5, <1>7, <2>1 DEF LongerArgs
  <2> QED
    BY <1>12, <2>4, <2>5, <2>6, <2>8, <2>9 DEF Parsed
<1> QED
  BY <1>2, <1>3, <1>6, <1>9, <1>10, <1>11, <1>12 DEF NextArg, Refuse

-----------------------------------------------------------------------------
\* The places before the file is read.
EarlyPlaces == {"args", "options", "printed", "open", "badArgument", "noConfig"}
\* Nothing looks at the arguments any more.
Later == at \notin {"args", "options", "printed", "badArgument"}

\* The end of the arguments: the option that waits is faulty now.
LEMMA EndArgsParsed ==
    ASSUME Typed, Parsed, EndArgs
    PROVE  Parsed'
<1>1. PICK n \in Nat, k \in Nat : n = Len(argv) /\ k = Len(bare)
  BY DEF Typed
<1>2. at = "args" /\ UNCHANGED <<argv, current, args, bare>>
  BY DEF EndArgs, parsing
<1>3. /\ k <= n /\ Leading = 1 .. (n - k) /\ bare = SubSeq(argv, n - k + 1, n)
      /\ \A i \in Options : ~Faulty(i)
      /\ Waiting <=> current # NoWord
      /\ Waiting => \E p \in Named(argv[n]) : p.value /\ current = p.name
      /\ \A p \in Parameters : ArgGiven(p)
  BY <1>1, <1>2 DEF Parsed
<1>4. Leading' = Leading /\ Options' = Options /\ (Waiting' <=> Waiting)
  BY <1>2 DEF Leading, Options, ValueAt, Waiting
<1>5. \A i : (ValueAt(i)' <=> ValueAt(i))
  BY <1>2 DEF ValueAt
<1>6. CASE Waiting
  <2>1. /\ argv # <<>> /\ bare = <<>> /\ IsOption(argv[n]) /\ NeedsValue(argv[n])
    BY <1>1, <1>6 DEF Waiting
  <2>2. k = 0 /\ n > 0
    BY <1>1, <2>1 DEF Typed
  <2>3. n \in Leading
    BY ONLY <1>3, <2>2, n \in Nat
  <2>4. n \in Options'
    BY <1>4, <2>1, <2>3 DEF Options
  <2>5. at' = "badArgument"
    BY <1>3, <1>6 DEF EndArgs, Refuse
  <2>6. Faulty(n)'
    BY <1>1, <1>2, <2>1, <2>5 DEF Faulty
  <2> QED
    BY <2>4, <2>5, <2>6 DEF Parsed
<1>7. CASE ~Waiting
  <2>1. at' = "options" /\ current = NoWord
    BY <1>3, <1>7 DEF EndArgs
  <2>2. ASSUME NEW i \in Options'
        PROVE  ~Faulty(i)'
    <3>1. i \in Options /\ i \in Leading /\ IsOption(argv[i]) /\ i \in 1 .. (n - k)
      BY <1>3, <1>4 DEF Options
    <3>2. ~Faulty(i)
      BY <1>3, <3>1
    <3>3. i = n => k = 0
      BY ONLY <3>1, n \in Nat, k \in Nat
    <3>4. ASSUME i = n
          PROVE  ~NeedsValue(argv[n])
      <4>1. bare = <<>>
        BY <1>1, <3>3, <3>4 DEF Typed
      <4>2. argv # <<>> /\ IsOption(argv[n])
        BY <1>1, <3>1, <3>4
      <4> QED
        BY <1>1, <1>7, <4>1, <4>2 DEF Waiting
    <3>5. i < n \/ i = n
      BY ONLY <3>1, n \in Nat, k \in Nat
    <3> QED
      BY <1>1, <1>2, <1>5, <3>2, <3>4, <3>5 DEF Faulty
  <2>3. \A p \in Parameters : ArgGiven(p)'
    <3>1. \A p \in Parameters : Given(p)' = Given(p)
      BY <1>2, <1>4, <1>5 DEF Given
    <3> QED
      BY <1>2, <1>3, <3>1 DEF ArgGiven
  <2>4. ~Waiting' /\ current' = NoWord
    BY <1>2, <1>4, <1>7, <2>1
  <2>5. /\ Len(bare') <= Len(argv') /\ Leading' = 1 .. (Len(argv') - Len(bare'))
        /\ bare' = SubSeq(argv', Len(argv') - Len(bare') + 1, Len(argv'))
    BY <1>1, <1>2, <1>3, <1>4
  <2> QED
    BY <2>1, <2>2, <2>3, <2>4, <2>5 DEF Parsed
<1> QED
  BY <1>6, <1>7

\* The options are looked at; the arguments stay as they are.
LEMMA ArgsStay ==
    ASSUME Parsed, UNCHANGED <<argv, current, args, bare>>,
           at' = at \/ (at = "options" /\ at' = "printed")
    PROVE  Parsed'
<1>1. \A i : (ValueAt(i)' <=> ValueAt(i))
  BY DEF ValueAt
<1>2. Leading' = Leading /\ Options' = Options /\ (Waiting' <=> Waiting)
  BY <1>1 DEF Leading, Options, Waiting
<1>3. \A p : Given(p)' = Given(p)
  BY <1>1, <1>2 DEF Given
<1>4. \A p \in Parameters : ArgGiven(p)' <=> ArgGiven(p)
  BY <1>3 DEF ArgGiven
<1>5. \A i : Faulty(i)' <=> Faulty(i)
  BY <1>1 DEF Faulty
<1> QED
  BY <1>2, <1>4, <1>5 DEF Parsed

\* Once the options are taken the arguments are forgotten.
LEMMA LaterParsed ==
    ASSUME Later', argv' = <<>>
    PROVE  Parsed'
BY DEF Later, Parsed

\* A step that reads no line leaves what is known of the file.
LEMMA LinesStay ==
    ASSUME Written, UNCHANGED <<lines, section, config, env>>,
           at' = "badFile" <=> at = "badFile", at' \in EarlyPlaces => at \in EarlyPlaces
    PROVE  Written'
<1>1. /\ NoLine' <=> NoLine
      /\ \A i : HeadAt(i)' = HeadAt(i) /\ (HasLast(i)' <=> HasLast(i))
      /\ NoBadLine' <=> NoBadLine
      /\ \A k : LinesOf(k)' = LinesOf(k) /\ (KeyWritten(k)' <=> KeyWritten(k))
      /\ ValuesOf(env)' = ValuesOf(env)
  BY SameLines
<1>2. at' \in EarlyPlaces => NoLine'
  BY <1>1 DEF Written, EarlyPlaces
<1>3. \A i \in 0 .. Len(lines') : HasLast(i)'
  BY <1>1 DEF Written
<1>4. section' = IF HeadAt(Len(lines))' = 0 THEN <<>> ELSE SectionOf(Clean(lines'[HeadAt(Len(lines))']))
  BY <1>1 DEF Written
<1>5. (at' = "badFile") <=> ~NoBadLine'
  BY <1>1 DEF Written
<1>6. \A k : k \in DOMAIN config' <=> LinesOf(k)' # {}
  BY <1>1 DEF Written
<1>7. \A k \in DOMAIN config' : config'[k] \in Seq(ValuesOf(env)') /\ KeyWritten(k)'
  BY <1>1 DEF Written
<1> QED
  BY <1>2, <1>3, <1>4, <1>5, <1>6, <1>7 DEF Written, EarlyPlaces

-----------------------------------------------------------------------------
\* The inductive invariant: the types, what main has settled, the arguments and the file so far.
StartupInv == Typed /\ Settled /\ Parsed /\ Written

\* The invariant holds before the first argument is read.
LEMMA StartsRight ==
    ASSUME StartupAssumption, StartupInit
    PROVE  StartupInv
<1>1. -1 \in Ints /\ argv \in Seq(Arguments) /\ bare \in Seq(Arguments) /\ lines \in Seq(Lines)
  BY DEF StartupInit, StartupAssumption, Ints
<1>2. Typed
  <2>1. current \in {NoWord} \cup {p.name : p \in Parameters}
    BY DEF StartupInit
  <2>2. DOMAIN args = {}
    BY DEF StartupInit
  <2>3. at \in Places /\ at # "serving"
    BY DEF StartupInit, Places
  <2>4. /\ env \in Environments /\ tty \in BOOLEAN /\ verbose \in BOOLEAN
        /\ noColor \in BOOLEAN /\ trim \in BOOLEAN
        /\ cache \in {"unset", "plain", "colour"} /\ port \in Int /\ level \in Ints
    <3>1. env \in Environments /\ tty \in BOOLEAN
      BY Zenon DEF StartupInit
    <3>2. verbose \in BOOLEAN /\ noColor \in BOOLEAN /\ trim \in BOOLEAN
      BY Zenon DEF StartupInit
    <3>3. cache \in {"unset", "plain", "colour"}
      BY Zenon DEF StartupInit
    <3>4. port \in Int /\ level \in Ints
      BY <1>1 DEF StartupInit
    <3> QED
      BY <3>1, <3>2, <3>3, <3>4
  <2>5. DOMAIN args \subseteq {p.name : p \in Parameters}
    BY <2>2
  <2> QED
    BY <1>1, <2>1, <2>3, <2>4, <2>5 DEF Typed
<1>3. Settled
  BY DEF StartupInit, Settled, Uncoloured, FromColor, FromLevel, FromTrim, FromEnvironment, FromPort,
         FromListen
<1>4. Parsed
  <2>1. Leading = {} /\ Options = {} /\ Len(argv) = 0 /\ Len(bare) = 0
    BY DEF StartupInit, Leading, Options
  <2>2. \A p \in Parameters : ArgGiven(p)
    BY <2>1 DEF StartupInit, ArgGiven, Given
  <2>3. ~Waiting /\ current = NoWord
    BY DEF StartupInit, Waiting
  <2>4. bare = SubSeq(argv, 1, 0)
    BY SubSeqEmpty DEF StartupInit
  <2> QED
    BY <2>1, <2>2, <2>3, <2>4 DEF StartupInit, Parsed
<1>5. Written
  <2>1. Len(lines) = 0 /\ DOMAIN lines = {} /\ DOMAIN config = {}
    BY DEF StartupInit
  <2>2. Heads(0) = {}
    BY DEF Heads
  <2>3. HasLast(0) /\ HeadAt(0) = 0
    BY <2>2 DEF HasLast, HeadAt, SelectLastInSubSeq, Heads
  <2>4. NoBadLine /\ \A k : LinesOf(k) = {}
    BY <2>1 DEF NoBadLine, LinesOf
  <2>5. \A i \in 0 .. Len(lines) : HasLast(i)
    BY <2>1, <2>3
  <2> QED
    BY <2>1, <2>3, <2>4, <2>5 DEF StartupInit, Written, NoLine
<1> QED
  BY <1>2, <1>3, <1>4, <1>5 DEF StartupInv

\* EndArgs keeps the invariant: an option that still waits is refused.
LEMMA EndArgsInv ==
    ASSUME StartupInv, EndArgs
    PROVE  StartupInv'
<1>1. Typed' /\ Settled'
  BY EndArgsKeeps DEF StartupInv
<1>2. Parsed'
  BY EndArgsParsed DEF StartupInv
<1>3. Written'
  BY LinesStay DEF StartupInv, EndArgs, EarlyPlaces, Refuse, reading
<1> QED
  BY <1>1, <1>2, <1>3 DEF StartupInv

\* PrintOnly keeps the invariant: the arguments stay.
LEMMA PrintOnlyInv ==
    ASSUME StartupInv, PrintOnly
    PROVE  StartupInv'
<1>1. Typed' /\ Settled'
  BY PrintOnlyKeeps DEF StartupInv
<1>2. Parsed'
  BY ArgsStay DEF StartupInv, PrintOnly, parsing
<1>3. Written'
  BY LinesStay DEF StartupInv, PrintOnly, EarlyPlaces, Refuse, reading
<1> QED
  BY <1>1, <1>2, <1>3 DEF StartupInv

\* VerboseSwitch keeps the invariant: the arguments are forgotten.
LEMMA VerboseSwitchInv ==
    ASSUME StartupInv, VerboseSwitch
    PROVE  StartupInv'
<1>1. Typed' /\ Settled'
  BY VerboseSwitchKeeps DEF StartupInv
<1>2. Parsed'
  BY LaterParsed DEF StartupInv, VerboseSwitch, Forget, Later
<1>3. Written'
  BY LinesStay DEF StartupInv, VerboseSwitch, EarlyPlaces, Refuse, reading
<1> QED
  BY <1>1, <1>2, <1>3 DEF StartupInv

\* OpenConfig keeps the invariant: it touches neither the arguments nor the lines.
LEMMA OpenConfigInv ==
    ASSUME StartupInv, OpenConfig
    PROVE  StartupInv'
<1>1. Typed' /\ Settled'
  BY OpenConfigKeeps DEF StartupInv
<1>2. Parsed'
  BY LaterParsed DEF StartupInv, Parsed, OpenConfig, Refuse, Later, parsing
<1>3. Written'
  BY LinesStay DEF StartupInv, OpenConfig, EarlyPlaces, Refuse, reading
<1> QED
  BY <1>1, <1>2, <1>3 DEF StartupInv

\* EndLines keeps the invariant: it touches neither the arguments nor the lines.
LEMMA EndLinesInv ==
    ASSUME StartupInv, EndLines
    PROVE  StartupInv'
<1>1. Typed' /\ Settled'
  BY EndLinesKeeps DEF StartupInv
<1>2. Parsed'
  BY LaterParsed DEF StartupInv, Parsed, EndLines, Refuse, Later, parsing
<1>3. Written'
  BY LinesStay DEF StartupInv, EndLines, EarlyPlaces, Refuse, reading
<1> QED
  BY <1>1, <1>2, <1>3 DEF StartupInv

\* ReadVerbose keeps the invariant: it touches neither the arguments nor the lines.
LEMMA ReadVerboseInv ==
    ASSUME StartupAssumption, StartupInv, ReadVerbose
    PROVE  StartupInv'
<1>1. Typed' /\ Settled'
  BY ReadVerboseKeeps DEF StartupInv
<1>2. Parsed'
  BY LaterParsed DEF StartupInv, Parsed, ReadVerbose, ReadSetting, Refuse, parsing, Later
<1>3. Written'
  BY LinesStay DEF StartupInv, ReadVerbose, EarlyPlaces, ReadSetting, Refuse, reading
<1> QED
  BY <1>1, <1>2, <1>3 DEF StartupInv

\* ReadColor keeps the invariant: it touches neither the arguments nor the lines.
LEMMA ReadColorInv ==
    ASSUME StartupAssumption, StartupInv, ReadColor
    PROVE  StartupInv'
<1>1. Typed' /\ Settled'
  BY ReadColorKeeps DEF StartupInv
<1>2. Parsed'
  BY LaterParsed DEF StartupInv, Parsed, ReadColor, ReadSetting, Refuse, parsing, Later
<1>3. Written'
  BY LinesStay DEF StartupInv, ReadColor, EarlyPlaces, ReadSetting, Refuse, reading
<1> QED
  BY <1>1, <1>2, <1>3 DEF StartupInv

\* ReadLevel keeps the invariant: it touches neither the arguments nor the lines.
LEMMA ReadLevelInv ==
    ASSUME StartupAssumption, StartupInv, ReadLevel
    PROVE  StartupInv'
<1>1. Typed' /\ Settled'
  BY ReadLevelKeeps DEF StartupInv
<1>2. Parsed'
  BY LaterParsed DEF StartupInv, Parsed, ReadLevel, ReadSetting, Refuse, parsing, Later
<1>3. Written'
  BY LinesStay DEF StartupInv, ReadLevel, EarlyPlaces, ReadSetting, Refuse, reading
<1> QED
  BY <1>1, <1>2, <1>3 DEF StartupInv

\* ReadTrim keeps the invariant: it touches neither the arguments nor the lines.
LEMMA ReadTrimInv ==
    ASSUME StartupAssumption, StartupInv, ReadTrim
    PROVE  StartupInv'
<1>1. Typed' /\ Settled'
  BY ReadTrimKeeps DEF StartupInv
<1>2. Parsed'
  BY LaterParsed DEF StartupInv, Parsed, ReadTrim, ReadSetting, Refuse, parsing, Later
<1>3. Written'
  BY LinesStay DEF StartupInv, ReadTrim, EarlyPlaces, ReadSetting, Refuse, reading
<1> QED
  BY <1>1, <1>2, <1>3 DEF StartupInv

\* EnvVerbose keeps the invariant: it touches neither the arguments nor the lines.
LEMMA EnvVerboseInv ==
    ASSUME StartupAssumption, StartupInv, EnvVerbose
    PROVE  StartupInv'
<1>1. Typed' /\ Settled'
  BY EnvVerboseKeeps DEF StartupInv
<1>2. Parsed'
  BY LaterParsed DEF StartupInv, Parsed, EnvVerbose, parsing, Later
<1>3. Written'
  BY LinesStay DEF StartupInv, EnvVerbose, EarlyPlaces, reading
<1> QED
  BY <1>1, <1>2, <1>3 DEF StartupInv

\* ReadPort keeps the invariant: it touches neither the arguments nor the lines.
LEMMA ReadPortInv ==
    ASSUME StartupAssumption, StartupInv, ReadPort
    PROVE  StartupInv'
<1>1. Typed' /\ Settled'
  BY ReadPortKeeps DEF StartupInv
<1>2. Parsed'
  BY LaterParsed DEF StartupInv, Parsed, ReadPort, ReadSetting, Refuse, parsing, Later
<1>3. Written'
  BY LinesStay DEF StartupInv, ReadPort, EarlyPlaces, ReadSetting, Refuse, reading
<1> QED
  BY <1>1, <1>2, <1>3 DEF StartupInv

\* ReadHost keeps the invariant: it touches neither the arguments nor the lines.
LEMMA ReadHostInv ==
    ASSUME StartupAssumption, StartupInv, ReadHost
    PROVE  StartupInv'
<1>1. Typed' /\ Settled'
  BY ReadHostKeeps DEF StartupInv
<1>2. Parsed'
  BY LaterParsed DEF StartupInv, Parsed, ReadHost, ReadSetting, Refuse, parsing, Later
<1>3. Written'
  BY LinesStay DEF StartupInv, ReadHost, EarlyPlaces, ReadSetting, Refuse, reading
<1> QED
  BY <1>1, <1>2, <1>3 DEF StartupInv

\* Bind keeps the invariant: it touches neither the arguments nor the lines.
LEMMA BindInv ==
    ASSUME StartupAssumption, StartupInv, Bind
    PROVE  StartupInv'
<1>1. Typed' /\ Settled'
  BY BindKeeps DEF StartupInv
<1>2. Parsed'
  BY LaterParsed DEF StartupInv, Parsed, Bind, parsing, Later
<1>3. Written'
  BY LinesStay DEF StartupInv, Bind, EarlyPlaces, reading
<1> QED
  BY <1>1, <1>2, <1>3 DEF StartupInv

\* Log keeps the invariant: it touches neither the arguments nor the lines.
LEMMA LogInv ==
    ASSUME StartupAssumption, StartupInv, Log
    PROVE  StartupInv'
<1>1. Typed' /\ Settled'
  BY LogKeeps DEF StartupInv
<1>2. Parsed'
  BY LaterParsed DEF StartupInv, Parsed, Log, parsing, Later
<1>3. Written'
  BY LinesStay DEF StartupInv, Log, EarlyPlaces, reading
<1> QED
  BY <1>1, <1>2, <1>3 DEF StartupInv

\* The invariant holds from the start and every step keeps it.
LEMMA StartupHolds == StartupSpec => []StartupInv
<1>1. ASSUME StartupInv, [StartupNext]_startupVars
      PROVE  StartupInv'
  <2>1. ASSUME NEW a \in Arguments, NextArg(a)
        PROVE  StartupInv'
    <3>1. Typed' /\ Settled' /\ Parsed'
      BY <1>1, <2>1, NextArgTyped, NextArgSettled, NextArgParsed DEF StartupInv
    <3>2. Written'
      BY <1>1, <2>1, LinesStay DEF StartupInv, NextArg, Refuse, reading, EarlyPlaces
    <3> QED
      BY <3>1, <3>2 DEF StartupInv
  <2>2. ASSUME NEW l \in Lines, NextLine(l)
        PROVE  StartupInv'
    <3>1. Typed' /\ Settled' /\ Written'
      BY <1>1, <2>2, NextLineTyped, NextLineSettled, NextLineWritten DEF StartupInv
    <3>2. Parsed'
      BY <1>1, <2>2, LaterParsed DEF StartupInv, Parsed, NextLine, Refuse, parsing, Later
    <3> QED
      BY <3>1, <3>2 DEF StartupInv
  <2>3. ASSUME UNCHANGED startupVars
        PROVE  StartupInv'
    <3>1. Typed' /\ Settled'
      BY <1>1, <2>3, SameReads DEF StartupInv, Typed, Settled, startupVars, parsing, reading, settings
    <3>2. Parsed'
      BY <1>1, <2>3, ArgsStay DEF StartupInv, startupVars, parsing
    <3>3. Written'
      BY <1>1, <2>3, LinesStay DEF StartupInv, startupVars, reading
    <3> QED
      BY <3>1, <3>2, <3>3 DEF StartupInv
  <2>4. EndArgs \/ PrintOnly \/ VerboseSwitch \/ OpenConfig \/ EndLines => StartupInv'
    BY <1>1, EndArgsInv, PrintOnlyInv, VerboseSwitchInv, OpenConfigInv, EndLinesInv
  <2>5. ReadVerbose \/ ReadColor \/ ReadLevel \/ ReadTrim \/ EnvVerbose => StartupInv'
    BY <1>1, StartupAssumption, ReadVerboseInv, ReadColorInv, ReadLevelInv, ReadTrimInv, EnvVerboseInv
  <2>6. ReadPort \/ ReadHost \/ Bind \/ Log => StartupInv'
    BY <1>1, StartupAssumption, ReadPortInv, ReadHostInv, BindInv, LogInv
  <2> QED
    BY <1>1, <2>1, <2>2, <2>3, <2>4, <2>5, <2>6 DEF StartupNext
<1>2. StartupInit => StartupInv
  BY StartupAssumption, StartsRight
<1> QED
  BY <1>1, <1>2, PTL DEF StartupSpec

-----------------------------------------------------------------------------
\* A word is true or it is not.
LEMMA TrueFalseType == \A v : TrueFalse(v) \in BOOLEAN
BY DEF TrueFalse

\* In every reachable state the variables have their types: the level is an int, the running server's
\* port one of its uint16_t (StartupTypeOK).
THEOREM TypeSafe == StartupSpec => []StartupTypeOK
<1>1. StartupInv => StartupTypeOK
  BY DEF StartupInv, Typed, StartupTypeOK
<1> QED
  BY <1>1, StartupHolds, PTL

\* arg_parser means what the order of the arguments says, for any arguments: parameters, their
\* values, what is bare; only faulty command lines are refused, and no such line is obeyed but for
\* those that ask for help (ArgsAsGiven).
THEOREM ArgumentsSafe == StartupSpec => []ArgsAsGiven
<1>1. StartupInv => ArgsAsGiven
  <2> SUFFICES ASSUME StartupInv
               PROVE  ArgsAsGiven
    OBVIOUS
  <2>1. (at = "badArgument") <=> (\E i \in Options : Faulty(i))
    <3>1. CASE at \in {"args", "options", "printed"}
      BY <3>1 DEF StartupInv, Parsed
    <3>2. CASE at = "badArgument"
      BY <3>2 DEF StartupInv, Parsed
    <3>3. CASE at \notin {"args", "options", "printed", "badArgument"}
      <4>1. argv = <<>>
        BY <3>3 DEF StartupInv, Parsed
      <4>2. Options = {}
        BY <4>1 DEF Options, Leading
      <4> QED
        BY <3>3, <4>2
    <3> QED
      BY <3>1, <3>2, <3>3
  <2>2. ASSUME at \in {"args", "options", "printed"}
        PROVE  /\ bare = SubSeq(argv, Cardinality(Leading) + 1, Len(argv))
               /\ \A p \in Parameters : ArgGiven(p)
    <3>1. PICK n \in Nat, k \in Nat : n = Len(argv) /\ k = Len(bare)
      BY DEF StartupInv, Typed
    <3>2. /\ k <= n /\ Leading = 1 .. (n - k) /\ bare = SubSeq(argv, n - k + 1, n)
          /\ \A p \in Parameters : ArgGiven(p)
      BY <2>2, <3>1 DEF StartupInv, Parsed
    <3>3. n - k \in Nat /\ 1 \in Int
      BY ONLY <3>2, n \in Nat, k \in Nat
    <3>4. Cardinality(1 .. (n - k)) = n - k
      <4>1. Cardinality(1 .. (n - k)) = IF 1 > n - k THEN 0 ELSE (n - k) - 1 + 1
        BY ONLY <3>3, FS_Interval
      <4> QED
        BY ONLY <3>3, <4>1
    <3> QED
      BY <3>1, <3>2, <3>4
  <2> QED
    BY <2>1, <2>2 DEF ArgsAsGiven, ArgGiven
<1> QED
  BY <1>1, StartupHolds, PTL

\* For any file, the settings are those of its lines, per section and key, in their order, and
\* exactly a file with a value before its first head is refused (ConfigAsWritten).
THEOREM ConfigurationSafe == StartupSpec => []ConfigAsWritten
<1>1. StartupInv => ConfigAsWritten
  <2> SUFFICES ASSUME StartupInv
               PROVE  ConfigAsWritten
    OBVIOUS
  <2>1. (at = "badFile") <=> (\E i \in DOMAIN lines : PairAt(i) /\ HeadAt(i) = 0)
    BY DEF StartupInv, Written, NoBadLine
  <2>2. DOMAIN config = {Under(i) : i \in {h \in DOMAIN lines : PairAt(h) /\ HeadAt(h) # 0}}
    <3>1. \A k : k \in DOMAIN config <=> LinesOf(k) # {}
      BY DEF StartupInv, Written
    <3>2. \A k : LinesOf(k) # {} <=>
                   \E i \in {h \in DOMAIN lines : PairAt(h) /\ HeadAt(h) # 0} : k = Under(i)
      BY DEF LinesOf
    <3> QED
      BY <3>1, <3>2
  <2>3. \A k \in DOMAIN config : KeyWritten(k)
    BY DEF StartupInv, Written
  <2> QED
    BY <2>1, <2>2, <2>3 DEF ConfigAsWritten, KeyWritten, NthOf
<1> QED
  BY <1>1, StartupHolds, PTL

\* The server that runs has taken the backtrace level, trim_symbol, the port and the address from the
\* file and the environment, and verbose too, unless only -V had switched it on (Overridden).
THEOREM OverridesSafe == StartupSpec => []Overridden
<1>1. StartupInv => Overridden
  <2> SUFFICES ASSUME StartupInv, at = "serving"
               PROVE  Overridden
    BY DEF Overridden
  <2>1. VerboseChosen /\ LevelRead /\ TrimRead /\ HostRead /\ PortBound
    BY DEF StartupInv, Settled, FromColor, FromLevel, FromTrim, FromEnvironment, FromPort, FromListen
  <2>2. verbose = TrueFalse(IF env.VERBOSE # <<>> THEN env.VERBOSE ELSE Text("verbose"))
    BY <2>1 DEF VerboseChosen
  <2>3. TrimSymbol = TrueFalse(IF env.TRIM_SYMBOL # <<>> THEN env.TRIM_SYMBOL ELSE Text("trim_symbol"))
    BY <2>1 DEF TrimRead, TrimSymbol
  <2>4. env.BACKTRACE_LEVEL = <<>> => BacktraceLevel = Integer("backtrace_level")
    BY <2>1 DEF LevelRead, BacktraceLevel
  <2>5. Numeric(env.BACKTRACE_LEVEL) /\ Number[env.BACKTRACE_LEVEL[1]] \in Ints =>
          BacktraceLevel = Number[env.BACKTRACE_LEVEL[1]]
    <3> SUFFICES ASSUME Numeric(env.BACKTRACE_LEVEL), Number[env.BACKTRACE_LEVEL[1]] \in Ints
                 PROVE  BacktraceLevel = Number[env.BACKTRACE_LEVEL[1]]
      OBVIOUS
    <3>1. env.BACKTRACE_LEVEL # <<>> /\ Number[env.BACKTRACE_LEVEL[1]] \in Int
      BY StartupAssumption DEF Numeric, StartupAssumption
    <3>2. AsInt(Number[env.BACKTRACE_LEVEL[1]]) = Number[env.BACKTRACE_LEVEL[1]]
      BY <3>1, StartupAssumption, AsIntType
    <3>3. Number[env.BACKTRACE_LEVEL[1]] \in Longs
      BY StartupAssumption, IntsAreLongs
    <3> QED
      BY <3>1, <3>2, <3>3 DEF BacktraceLevel, Nearest
  <2>6. host # <<>>
    BY <2>1 DEF HostRead, HostOf
  <2>7. port = PortOf % PortSpan /\ Integer("port") \in Int
    BY <2>1, StartupAssumption, IntegerType DEF PortBound
  <2>8. Integer("port") \in 0 .. PortSpan - 1 => port = Integer("port")
    <3> SUFFICES ASSUME Integer("port") \in 0 .. PortSpan - 1
                 PROVE  port = Integer("port")
      OBVIOUS
    <3>1. PortOf = Integer("port")
      BY StartupAssumption DEF PortOf, StartupAssumption
    <3> QED
      BY <2>7, <3>1, StartupAssumption, ModType
  <2>9. Values("port") = <<>> => port = 8080 % PortSpan
    BY <2>7 DEF PortOf, Integer
  <2> QED
    BY <2>2, <2>3, <2>4, <2>5, <2>6, <2>8, <2>9 DEF Overridden
<1> QED
  BY <1>1, StartupHolds, PTL

\* A running server's messages are in colour exactly when the terminal, the file and COLOR say so,
\* whichever message asked first (ColourAsSet).
THEOREM ColourSafe == StartupSpec => []ColourAsSet
<1>1. StartupInv => ColourAsSet
  <2> SUFFICES ASSUME StartupInv, at = "serving", cache # "unset"
               PROVE  cache = "colour" <=> \/ env.COLOR = <<"always">>
                                           \/ /\ tty /\ TrueFalse(Text("color"))
                                              /\ env.COLOR \notin {<<"never">>, <<"off">>}
    BY DEF ColourAsSet
  <2>1. cache = Decide /\ noColor = ~TrueFalse(Text("color"))
    BY DEF StartupInv, Settled, ColourRead, FromColor, FromLevel, FromTrim, FromEnvironment, FromPort,
           FromListen
  <2>2. TrueFalse(Text("color")) \in BOOLEAN
    BY TrueFalseType
  <2> QED
    BY <2>1, <2>2 DEF Decide
<1> QED
  BY <1>1, StartupHolds, PTL

\* A server never runs with a setting given twice, or a number that is none or that no long long
\* holds, for any file (NeverGuesses).
THEOREM GuessesSafe == StartupSpec => []NeverGuesses
<1>1. StartupInv => NeverGuesses
  <2> SUFFICES ASSUME StartupInv, at = "serving"
               PROVE  NeverGuesses
    BY DEF NeverGuesses
  <2>1. /\ Single("verbose") /\ Single("color") /\ Single("trim_symbol") /\ Single("listen_addr")
        /\ IntOK("backtrace_level") /\ IntOK("port")
    BY DEF StartupInv, Settled, FromColor, FromLevel, FromTrim, FromEnvironment, FromPort, FromListen,
           VerboseChosen, ColourRead, LevelRead, TrimRead, HostRead, PortBound
  <2>2. \A s \in DOMAIN Setting : Len(Values(s)) <= 1
    BY <2>1 DEF Setting, IntOK, Single
  <2>3. ASSUME NEW s \in DOMAIN Setting
        PROVE  Cardinality(LinesOf(Setting[s])) <= 1
    <3>1. CASE Setting[s] \in DOMAIN config
      <4>1. Len(config[Setting[s]]) = Cardinality(LinesOf(Setting[s]))
        BY <3>1 DEF StartupInv, Written, KeyWritten
      <4> QED
        BY <2>2, <3>1, <4>1 DEF Values
    <3>2. CASE Setting[s] \notin DOMAIN config
      <4>1. LinesOf(Setting[s]) = {}
        BY <3>2 DEF StartupInv, Written
      <4> QED
        BY <4>1, FS_EmptySet
    <3> QED
      BY <3>1, <3>2
  <2>4. ASSUME NEW s \in {"port", "backtrace_level"}, Values(s) # <<>>
        PROVE  Numeric(Values(s)[1]) /\ Number[Values(s)[1][1]] \in Longs
    <3>1. Numeric(Text(s)) /\ Number[Text(s)[1]] \in Longs
      BY <2>1, <2>4 DEF IntOK
    <3> QED
      BY <2>4, <3>1 DEF Text
  <2> QED
    BY <2>3, <2>4 DEF NeverGuesses
<1> QED
  BY <1>1, StartupHolds, PTL
=============================================================================
