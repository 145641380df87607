--------------------------- MODULE ConfigObjects ---------------------------
(***************************************************************************)
(* Objects, services and the logging as they are read from XML, kept and    *)
(* written to XML.                                                          *)
(***************************************************************************)
EXTENDS ConfigRules

(***************************************************************************)
(* Objects.                                                                 *)
(***************************************************************************)
\* Object::create: names that older versions used, and what a missing type is.
Alias == "" :> "1.001" @@ "EIS1" :> "1.001" @@ "EIS2" :> "3.007" @@ "EIS3" :> "10.001"
      @@ "EIS4" :> "11.001" @@ "EIS5" :> "9.xxx" @@ "EIS6" :> "5.xxx"
      @@ "EIS10" :> "7.xxx" @@ "EIS11" :> "12.xxx" @@ "EIS14" :> "6.xxx"
      @@ "EIS15" :> "16.000" @@ "heat-mode" :> "20.102"

\* Object::create and the getType of each class.  The subtypes 1.002 to 1.014,
\* 2.002 to 2.012 and 9.001 to 9.028 differ in their names and bounds only;
\* some of them stand for the rest.
ObjectTypes ==
    {"1.001", "1.002", "1.014", "2.xxx", "2.001", "2.012", "3.007", "3.008", "4.001",
     "4.002", "5.xxx", "5.001", "5.003", "5.010", "6.xxx", "7.xxx", "8.xxx", "9.xxx",
     "9.001", "9.028", "10.001", "11.001", "12.xxx", "13.xxx", "14.xxx", "16.000",
     "16.001", "20.102", "28.001", "29.xxx", "232.600", "251.600"}

TypeName(type) == IF type \in DOMAIN Alias THEN Alias[type] ELSE type

Flags == {"c", "r", "w", "t", "u", "i", "s"}
DefaultFlags == {"c", "w", "t", "u"}

FlagsOf(e) ==
    IF ~Has(e, "flags") THEN DefaultFlags
    ELSE (e.attrs["flags"] \cap Flags)
            \cup (IF "f" \in e.attrs["flags"] THEN {"s"} ELSE {})

NewObject(type) ==
    [type |-> TypeName(type), gad |-> 0, readRequestGad |-> 0, listeners |-> <<>>,
     flags |-> {}, log |-> FALSE, precision |-> 0, init |-> <<>>, description |-> ""]

\* What is kept of an address that is missing, empty, or given.
GadAfter(object, e) ==
    CASE ~Has(e, "gad") -> object.gad
      [] Has(e, "gad") /\ e.attrs["gad"] = <<>> -> 0
      [] OTHER -> ReadGroupAddr(e.attrs["gad"])

ReadRequestGadAfter(object, e) ==
    LET readers == SelectSeq(Children(e, "listener"), LAMBDA l : Says(l, "read", "true"))
    IN  IF readers = <<>> THEN GadAfter(object, e)
                          ELSE ReadGroupAddr(Last(readers).attrs["gad"])

\* Object::importXml, up to the initial value.  Precision is a matter of the
\* floating point types.
ObjectUpdated(object, e) ==
    [object EXCEPT
        !.gad = GadAfter(object, e),
        !.readRequestGad = ReadRequestGadAfter(object, e),
        !.listeners =
            IF Children(e, "listener") = <<>> THEN @
            ELSE LET ls == Children(e, "listener")
                 IN  [i \in 1 .. Len(ls) |-> ReadGroupAddr(ls[i].attrs["gad"])],
        !.flags = FlagsOf(e),
        !.log = Says(e, "log", "true"),
        !.precision = IF Has(e, "precision") /\ object.type \in {"9.xxx", "9.001", "14.xxx"}
                      THEN e.attrs["precision"] ELSE @,
        !.init = Attr(e, "init", <<>>),
        !.description = IF Attr(e, "text", "") = "" THEN @ ELSE e.attrs["text"]]

InitAccepted(type, init, storage) ==
    CASE init \in {<<>>, <<"request">>} -> TRUE
      [] init = <<"persist">> -> storage
      [] OTHER -> ValueAccepted(type, init)

\* The attributes that are looked at before anything is changed.
ObjectNamed(e) == Has(e, "id") /\ e.attrs["id"] \notin {"", "a/b"}

ObjectCreatable(e) == TypeName(TypeOf(e)) \in ObjectTypes /\ ObjectNamed(e)

ObjectChangeable(object, e) == TypeName(TypeOf(e)) = object.type /\ ObjectNamed(e)

\* Object::exportXml
ObjectExported(id, object) ==
    LET listener(i) ==
            Element("listener",
                "gad" :> WriteGroupAddr(object.listeners[i])
                  @@ (IF object.listeners[i] = object.readRequestGad
                      THEN "read" :> "true" ELSE <<>>), <<>>)
    IN  Element("object",
            "type" :> object.type @@ "id" :> id
              @@ (IF object.gad = 0 THEN <<>> ELSE "gad" :> WriteGroupAddr(object.gad))
              @@ (IF object.init = <<>> THEN <<>> ELSE "init" :> object.init)
              @@ (IF object.log THEN "log" :> "true" ELSE <<>>)
              @@ (IF object.precision = 0 THEN <<>> ELSE "precision" :> object.precision)
              @@ (IF object.flags = DefaultFlags THEN <<>> ELSE "flags" :> object.flags)
              @@ (IF object.description = "" THEN <<>> ELSE "text" :> object.description),
            [i \in 1 .. Len(object.listeners) |-> listener(i)])

(***************************************************************************)
(* Services.  Each but the days and the ports has one element with a type.  *)
(***************************************************************************)
SmsGateway ==
    "clickatell" :> {Required("user", "text"), Required("pass", "text"),
                     Required("api_id", "text"), Optional("from", "text", "")}
 @@ "freemobile" :> {Required("user", "text"), Required("pass", "text")}
 @@ "" :> {}

EmailGateway ==
    "smtp" :> {Required("host", "text"), Required("from", "text"),
               Optional("login", "text", ""), Optional("pass", "text", "")}
 @@ "" :> {}

XmlServer ==
    "inet" :> {Defaulted("port", "number", 1028)}
 @@ "unix" :> {Defaulted("path", "text", "/tmp/xmlserver.sock")}

KnxConnection == "" :> {Defaulted("url", "text", "")}

LocationInfo == "" :> {Defaulted("lon", "float", 0), Defaulted("lat", "float", 0)}

PersistentStorage ==
    "file" :> {Defaulted("path", "directory", <<"var", "/">>),
               Defaulted("logPath", "directory", <<>>)}
 @@ "mysql" :> {Defaulted("host", "text", ""), Defaulted("user", "text", ""),
                Defaulted("pass", "text", ""), Defaulted("db", "text", ""),
                Defaulted("table", "text", ""), Defaulted("logtable", "text", ""),
                Optional("charset", "text", "")}
 @@ "influxdb" :> {Defaulted("uri", "text", ""), Defaulted("user", "text", ""),
                   Defaulted("pass", "text", ""), Defaulted("db", "text", ""),
                   Defaulted("persist_db", "text", "")}
 @@ "" :> {}

ServiceTable ==
    "smsgateway" :> SmsGateway @@ "emailserver" :> EmailGateway
 @@ "xmlserver" :> XmlServer @@ "knxconnection" :> KnxConnection
 @@ "location" :> LocationInfo @@ "persistence" :> PersistentStorage

ServiceType(e) == IF e.tag = "xmlserver" THEN Attr(e, "type", "inet") ELSE TypeOf(e)

NoService == [type |-> "", fields |-> <<>>]

ServiceAccepted(e, env) ==
    /\ ServiceType(e) \in DOMAIN ServiceTable[e.tag]
    /\ RowsAccepted(ServiceTable[e.tag][ServiceType(e)], e, env)

\* FilePersistentStorage: what is logged goes beside the values unless another
\* path is given.
ServiceImported(e, env) ==
    LET type == ServiceType(e)
        fields == Fields(ServiceTable[e.tag][type], e, env)
    IN  [type |-> type,
         fields |-> IF e.tag = "persistence" /\ type = "file" /\ fields["logPath"] = <<>>
                    THEN [fields EXCEPT !["logPath"] = fields["path"]] ELSE fields]

\* exportXml has other names for some of what the constructors read.
WrittenAs(type, attr) ==
    CASE type = "file" /\ attr = "logPath" -> "logpath"
      [] type = "influxdb" /\ attr = "db" -> "logDb"
      [] type = "influxdb" /\ attr = "persist_db" -> "persistDb"
      [] OTHER -> attr

StorageAttributes(node) ==
    LET attrs == Attributes(PersistentStorage[node.type], node.fields)
        shown == IF node.type = "file" /\ attrs["logPath"] = attrs["path"]
                 THEN {"path"} ELSE DOMAIN attrs
    IN  [name \in {WrittenAs(node.type, attr) : attr \in shown} |->
            attrs[CHOOSE attr \in shown : WrittenAs(node.type, attr) = name]]

ServiceExported(tag, node) ==
    Element(tag,
        (IF node.type = "" THEN <<>> ELSE "type" :> node.type)
          @@ (IF tag = "persistence" THEN StorageAttributes(node)
              ELSE Attributes(ServiceTable[tag][node.type], node.fields)),
        <<>>)

\* Services::exportXml leaves these out.
Absent(tag, node) ==
    \/ tag \in {"xmlserver", "persistence"} /\ node.type = ""
    \/ tag = "location" /\ node.fields["lon"] = 0 /\ node.fields["lat"] = 0

(***************************************************************************)
(* I/O ports.  A port keeps its type; a serial port knows the length and    *)
(* the time limit of a telegram only in its raw mode.                       *)
(***************************************************************************)
PortTable ==
    "udp" :> {Defaulted("host", "text", ""), Required("port", "number"),
              Optional("rxport", "number", 0)}
 @@ "tcp" :> {Defaulted("host", "text", ""), Required("port", "number"),
              Optional("permanent", "permanent", FALSE)}
 @@ "serial" :> {Required("dev", "text"), Required("speed", "speed"),
                 Defaulted("framing", "framing", <<8, "N", 1>>),
                 Defaulted("flow", "flow", "none"), Optional("mode", "mode", FALSE)}

RawRows == {Optional("timeout", "tenths", 0), Optional("msg-length", "number", 255)}

PortRows(type, raw) ==
    PortTable[type] \cup (IF type = "serial" /\ raw THEN RawRows ELSE {})

PortType(e) == IF TypeOf(e) = "" THEN "udp" ELSE TypeOf(e)

PortAccepted(type, e, env) ==
    /\ type \in DOMAIN PortTable
    /\ RowsAccepted(PortRows(type, Says(e, "mode", "raw")), e, env)

PortImported(type, e, env) ==
    [type |-> type, fields |-> Fields(PortRows(type, Says(e, "mode", "raw")), e, env)]

PortExported(id, port) ==
    Element("ioport",
        "id" :> id @@ "type" :> port.type
          @@ Attributes(PortRows(port.type, "msg-length" \in DOMAIN port.fields), port.fields),
        <<>>)

(***************************************************************************)
(* Exception days are added to the ones there are, unless they are cleared. *)
(***************************************************************************)
DayImported(e, env) == Fields(DaySpecRows, e, env)

DayExported(day) == Element("date", Attributes(DaySpecRows, day), <<>>)

(***************************************************************************)
(* The logging: a file of its own settles everything else.                  *)
(***************************************************************************)
NewLogging == [config |-> "", output |-> "", maxSize |-> -1, maxIndex |-> 0,
               format |-> "", level |-> ""]

Levels == {"", "DEBUG", "INFO", "WARN", "ERROR"}

LoggingUpdated(logging, e) ==
    IF Attr(e, "config", "") # "" THEN [logging EXCEPT !.config = e.attrs["config"]]
    ELSE LET output == Attr(e, "output", "")
             size == IF output = "" THEN logging.maxSize ELSE Attr(e, "maxfilesize", -1)
         IN  [config |-> "", output |-> output, maxSize |-> size,
              maxIndex |-> IF output # "" /\ size > 0 THEN Attr(e, "maxfileindex", 10)
                                                      ELSE logging.maxIndex,
              format |-> Attr(e, "format", ""), level |-> Attr(e, "level", "")]

LoggingAccepted(e) == Attr(e, "config", "") # "" \/ Attr(e, "level", "") \in Levels

LoggingExported(logging) ==
    Element("logging",
        IF logging.config # "" THEN "config" :> logging.config
        ELSE (IF logging.output = "" THEN <<>>
              ELSE "output" :> logging.output
                     @@ (IF logging.maxSize = -1 THEN <<>>
                         ELSE "maxfilesize" :> logging.maxSize
                                @@ "maxfileindex" :> logging.maxIndex))
               @@ (IF logging.format = "" THEN <<>> ELSE "format" :> logging.format)
               @@ (IF logging.level = "" THEN <<>> ELSE "level" :> logging.level),
        <<>>)
=============================================================================
