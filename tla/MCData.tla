------------------------------- MODULE MCData --------------------------------
(***************************************************************************)
(* The parsers and conversions for TLC.  A behaviour is one of BufferQueue, *)
(* HttpServer, ProtobufCodecLite, Logger, Calendar, TimeZone or NumberText; *)
(* which says which one, and the others stay in their initial state.       *)
(***************************************************************************)
EXTENDS BufferQueue, DataComponents, TLC

VARIABLES
  which,
  program, arrived, inputBuffer_, context, state_, out, seen, crossed, failed, modules_, helps_,
  frames, codecArrived, codecBuffer, connected, delivered, errors,
  value, steps

MCChunks == {<<0>>, <<1>>, <<0, 1>>, <<1, 1, 0>>}

-----------------------------------------------------------------------------
(* HTTP: requests of every method, with and without headers and a body, of   *)
(* both versions, on connections that stay open or not.                      *)
Request(method, path, query, version, headers, body) ==
  [method |-> method, path |-> path, query |-> query, version |-> version,
   headers |-> headers, body |-> body]

Get   == Request("GET", <<"/", "m1", "/", "c1">>, <<>>, "HTTP/1.1", <<>>, <<>>)
Index == Request("HEAD", <<"/">>, <<"?", "q">>, "HTTP/1.0",
                 <<<<"Connection", "Keep-Alive">>, <<"Host", "h">>>>, <<>>)
Close == Request("PUT", <<"/">>, <<>>, "HTTP/1.1", <<<<"Connection", "close">>>>, <<>>)
Old   == Request("DELETE", <<"/">>, <<>>, "HTTP/1.0", <<>>, <<>>)
Post  == Request("POST", <<"/">>, <<>>, "HTTP/1.1", <<>>, <<"data">>)
Bad   == Request("FOO", <<"/">>, <<>>, "HTTP/1.1", <<>>, <<>>)

Served(callback, requests) == [callback |-> callback, requests |-> requests]

HttpPrograms ==
  {Served("app", <<Index, Get>>), Served("app", <<Close, Get>>), Served("app", <<Old, Get>>),
   Served("inspector", <<Index, Get>>), Served("default", <<Get, Get>>),
   Served("app", <<Post, Get, Get>>), Served("app", <<Bad, Get>>),
   Served("app", <<Index, Get, Close, Get>>)}

H == INSTANCE HttpServer
       WITH Programs <- HttpPrograms, Modules <- {"m1", "m2"}, Commands <- {"c1", "c2"},
            Registered <- {<<"m1", "c1">>}, kInitialSize <- 50, ExtraBuf <- 20,
            ZeroByte <- "zero"

httpVars == <<program, arrived, inputBuffer_, context, state_, out, seen, crossed, failed,
              modules_, helps_>>

-----------------------------------------------------------------------------
(* The codec: frames that are right, and one wrong frame of each kind.       *)
Wrong(kind, payload, length) == [kind |-> kind, payload |-> payload, length |-> length]
Good(payload) == Wrong("good", payload, 0)

CodecPrograms ==
  {<<Good(<<>>), Good(<<2>>), Good(<<1, 3>>), Good(<<0>>)>>,
   <<Good(<<1>>), Wrong("checksum", <<1>>, 0), Good(<<0>>)>>,
   <<Good(<<1>>), Wrong("tag", <<1>>, 0), Good(<<0>>)>>,
   <<Good(<<1>>), Good(<<3>>), Good(<<0>>)>>,
   <<Wrong("length", <<1>>, -1), Good(<<0>>)>>,
   <<Wrong("length", <<1>>, 7), Good(<<0>>)>>,
   <<Good(<<1>>), Wrong("length", <<1>>, 2), Good(<<0>>)>>}

C == INSTANCE ProtobufCodecLite
       WITH Programs <- CodecPrograms, program <- frames, arrived <- codecArrived,
            inputBuffer_ <- codecBuffer, kInitialSize <- 3, ExtraBuf <- 6, ByteBase <- 4,
            kHeaderLen <- 2, kChecksumLen <- 2, kMaxMessageLen <- 6, tag_ <- <<1>>,
            Unparsable <- {<<3>>}, Filtered <- {<<2>>}

codecVars == <<frames, codecArrived, codecBuffer, connected, delivered, errors>>

-----------------------------------------------------------------------------
(* A record that is empty, one that fits, one whose numbers come when there  *)
(* is no room for the longest number, and one that leaves room for no suffix. *)
MCMessages ==
  {<<>>, <<<<"text", 3>>>>, <<<<"number", 3>>, <<"number", 2>>, <<"text", 2>>>>,
   <<<<"text", 12>>, <<"number", 3>>>>}

(* t_lastSecond of a thread that has not logged. *)
MCNoSecond == -1

-----------------------------------------------------------------------------
(* Years with and without a leap day, at centuries, and before 1970.         *)
MCFirstDays == {<<y, 1, 1>> : y \in {1900, 1904, 1969, 1972, 2000, 2037, 2100, 2400}}

(* Zones west and east of UTC with summer time, one without it, and one that *)
(* moves its standard time.                                                  *)
Offset(gmtOffset, isDst) == [gmtOffset |-> gmtOffset, isDst |-> isDst]

At(t, type) == [at |-> t, type |-> type]

Summer(standard, summer) ==
  [types |-> <<Offset(standard, FALSE), Offset(summer, TRUE)>>,
   trans |-> <<At(20, 2), At(60, 1), At(110, 2), At(150, 1)>>]

MCZoneFiles ==
  {Summer(-10, -8), Summer(2, 4),
   [types |-> <<Offset(16, FALSE)>>, trans |-> <<At(20, 1)>>],
   [types |-> <<Offset(2, FALSE), Offset(4, TRUE), Offset(6, FALSE)>>,
    trans |-> <<At(20, 2), At(60, 1), At(110, 3)>>]}

(* The walks cross zero, the minimum of the integers, and each limit of      *)
(* formatSI and formatIEC.                                                   *)
N == INSTANCE NumberText
       WITH FirstValues <- {-128, -8, 0, 60, 980, 9980, 10220, 99930, 102340, 999480, 1048050,
                            9994980, 10480500, 99949980, 104805160, 999499929},
            MaxSteps <- 70, Bits <- 8

textVars == <<value, steps>>

-----------------------------------------------------------------------------
MCInit ==
  /\ which \in {"buffer", "http", "codec", "logger", "date", "zone", "text"}
  /\ Init /\ H!Init /\ C!Init /\ L!Init /\ D!Init /\ Z!Init /\ N!Init
  /\ which # "http" => program = Served("app", <<Old, Get>>)
  /\ which # "codec" => frames = <<Good(<<1>>), Good(<<3>>), Good(<<0>>)>>
  /\ which # "logger" => g_logLevel = 3
  /\ which # "date" => date[1] = 2000
  /\ which # "zone" => zone = Z!FixedZone(16)
  /\ which # "text" => value = 0

MCNext ==
  \/ /\ which = "buffer" /\ Next
     /\ UNCHANGED <<which, httpVars, codecVars, loggerVars, dateVars, zoneVars, textVars>>
  \/ /\ which = "http" /\ H!Next
     /\ UNCHANGED <<which, buf, codecVars, loggerVars, dateVars, zoneVars, textVars>>
  \/ /\ which = "codec" /\ C!Next
     /\ UNCHANGED <<which, buf, httpVars, loggerVars, dateVars, zoneVars, textVars>>
  \/ /\ which = "logger" /\ L!Next
     /\ UNCHANGED <<which, buf, httpVars, codecVars, dateVars, zoneVars, textVars>>
  \/ /\ which = "date" /\ D!Next
     /\ UNCHANGED <<which, buf, httpVars, codecVars, loggerVars, zoneVars, textVars>>
  \/ /\ which = "zone" /\ Z!Next
     /\ UNCHANGED <<which, buf, httpVars, codecVars, loggerVars, dateVars, textVars>>
  \/ /\ which = "text" /\ N!Next
     /\ UNCHANGED <<which, buf, httpVars, codecVars, loggerVars, dateVars, zoneVars>>

MCVars == <<which, buf, httpVars, codecVars, loggerVars, dateVars, zoneVars, textVars>>

MCSpec == MCInit /\ [][MCNext]_MCVars

-----------------------------------------------------------------------------
(* HttpServer: httpCallback_ is given each request as it was written, and      *)
(* parseRequest returns with setMethod's assertion kept.                       *)
RequestsAsWritten == which = "http" => (H!RequestsAsWritten /\ H!ParseReturns)

(* HttpServer: onMessage answers a request as soon as it is complete, with a   *)
(* response whose end the peer can tell, and the index page of Inspector lists *)
(* the commands that are answered.                                             *)
AnsweredAtOnce ==
  which = "http" => (H!AnsweredAtOnce /\ H!EndOfResponseKnown /\ H!ListedIffServed)

(* ProtobufCodecLite: onMessage delivers the frames in order, each once, and   *)
(* nothing after a wrong frame.                                                *)
FramesInOrder == which = "codec" => (C!FramesInOrder /\ C!WrongFrameEnds)

(* A number reads back as it was written: appended or prepended to a Buffer    *)
(* (appendInt, prependInt), and as the text of convert; formatSI writes at     *)
(* most five characters and formatIEC six.                                     *)
NumbersReadBack ==
  /\ which = "buffer" => IntegersReadBack
  /\ which = "text" => (N!TextReadsBack /\ N!FiveCharacters)

==============================================================================
