------------------------------ MODULE FstHier ------------------------------
(***************************************************************************)
(* The hierarchy of an FST file: the functions that declare scopes,        *)
(* variables, attributes, source stems and enumeration tables, the bytes   *)
(* they leave in the .hier file and in the geometry, and the three ways of *)
(* reading them back: fstReaderIterateHier, fstReaderProcessHier (which    *)
(* share one handle) and the geometry block in fstReaderInit.              *)
(*                                                                         *)
(* Compression of the two blocks is left out, and realpath.                *)
(***************************************************************************)
EXTENDS FstCodec

CONSTANTS
  NamSiz,       (* FST_ID_NAM_SIZ.                                          *)
  AttrSiz,      (* FST_ID_NAM_ATTR_SIZ.                                     *)
  Vars,         (* Arguments of fstWriterCreateVar: [vt, vd, len, nam,      *)
                (* alias], ...                                              *)
  Supplements,  (* ... and what fstWriterCreateVar2 adds: [type, svt, sdt]. *)
  Scopes,       (* Arguments of fstWriterSetScope: [typ, name, component].  *)
  Attrs,        (* Of fstWriterSetAttrBegin: [typ, subtype, name, arg].     *)
  Comments,     (* Of fstWriterSetComment, ..SetValueList and ..SetEnvVar:  *)
                (* [comm, typ].                                             *)
  Stems,        (* Of fstWriterSetSourceStem and ..InstantiationStem: [path, *)
                (* line, typ].                                              *)
  EnumTables,   (* Of fstWriterCreateEnumTable: [name, literals, vals].     *)
  MaxCalls      (* Bound on the calls that declare.                         *)

(* Tags, and types of variables, attributes and miscellaneous attributes.   *)
FST_ST_GEN_ATTRBEGIN == 252
FST_ST_GEN_ATTREND == 253
FST_ST_VCD_SCOPE == 254
FST_ST_VCD_UPSCOPE == 255
FST_ST_MAX == 21
FST_VT_VCD_PORT == 18
FST_VT_GEN_STRING == 21
FST_VT_SV_SHORTREAL == 29
Reals == {3, 4, 20, FST_VT_SV_SHORTREAL}    (* REAL, REAL_PARAMETER, REALTIME. *)
FST_AT_MISC == 0
FST_AT_MAX == 3
AttrSubtypeMax == [typ \in 1 .. 3 |-> <<3, 15, 3>>[typ]]    (* ARRAY, ENUM, PACK. *)
Misc == [COMMENT |-> 0, ENVVAR |-> 1, SUPVAR |-> 2, PATHNAME |-> 3, SOURCESTEM |-> 4,
         SOURCEISTEM |-> 5, VALUELIST |-> 6, ENUMTABLE |-> 7, UNKNOWN |-> 8]

(* What the declaring functions are called with: paths and stems have       *)
(* functions of their own (fstapi.h:208-217), and the number of a path fits *)
(* in a name.                                                               *)
ASSUME HierAssumption ==
  /\ {NamSiz, AttrSiz} \subseteq Nat /\ MaxCalls \in Unsigned
  /\ \A n \in 1 .. MaxCalls : Len(Varint[n]) <= AttrSiz
  /\ Vars \subseteq [vt : Byte, vd : Byte, len : Unsigned, nam : CString, alias : Unsigned]
  /\ Supplements \subseteq [type : CString, svt : Nat, sdt : Nat]
  /\ \A sup \in Supplements : sup.svt * 1024 + (sup.sdt % 1024) \in Unsigned
  /\ Scopes \subseteq [typ : Byte, name : CString, component : CString]
  /\ Attrs \subseteq [typ : Byte, subtype : Byte, name : CString, arg : Unsigned]
  /\ \A a \in Attrs : a.typ = FST_AT_MISC => a.subtype \notin {Misc.PATHNAME, Misc.SOURCESTEM, Misc.SOURCEISTEM}
  /\ Comments \subseteq [comm : CString, typ : {Misc.COMMENT, Misc.ENVVAR, Misc.VALUELIST}]
  /\ Stems \subseteq [path : CString, line : Unsigned, typ : {Misc.SOURCESTEM, Misc.SOURCEISTEM}]
  /\ EnumTables \subseteq [name : CString, literals : Seq(CString), vals : Seq(CString)]

VARIABLES
  hier,             (* The bytes of the .hier file.                         *)
  xw,               (* The writer's counters, geometry and path table.      *)
  said,             (* What was declared, as the reader should return it.   *)
  stems,            (* Which of those are stems of which path.              *)
  xr,               (* The reader's context; <<>> before it is open.        *)
  returned          (* What fstReaderIterateHier returned since the rewind. *)
hierVars == <<hier, xw, said, stems, xr, returned>>

HierInit ==
  /\ hier = <<>> /\ said = <<>> /\ stems = <<>> /\ xr = <<>> /\ returned = <<>>
  /\ xw = [hier_file_len |-> 0, numsigs |-> 0, numscopes |-> 0, maxhandle |-> 0, geom |-> <<>>,
           max_enumhandle |-> 0, path_array |-> [p \in {s.path : s \in Stems} |-> 0], path_array_count |-> 0, calls |-> 0]

----------------------------------------------------------------------------
(* What one call writes: bytes, the length it counts, the record it means.  *)
Entry(bytes, len, record) == [bytes |-> bytes, len |-> len, record |-> record]
Zeroed(s) == s \o <<0>>

ScopeEntry(typ, name, component) ==
  LET scopetype == IF typ > FST_ST_MAX THEN 0 ELSE typ IN
  Entry(<<FST_ST_VCD_SCOPE, scopetype>> \o Zeroed(name) \o Zeroed(component), Len(name) + Len(component) + 4,
        [htyp |-> "scope", typ |-> scopetype, name |-> Cut(name, NamSiz), component |-> Cut(component, NamSiz)])

IsStem(typ, subtype) == typ = FST_AT_MISC /\ subtype \in {Misc.SOURCESTEM, Misc.SOURCEISTEM}
AttrEntry(typ, subtype, name, arg) ==
  LET attrtype == IF typ > FST_AT_MAX THEN FST_AT_MISC ELSE typ
      sub == IF typ > FST_AT_MAX THEN Misc.UNKNOWN
             ELSE IF typ # FST_AT_MISC /\ subtype > AttrSubtypeMax[typ] THEN 0 ELSE subtype
  IN Entry(<<FST_ST_GEN_ATTRBEGIN, attrtype, sub>> \o Zeroed(name) \o Varint[arg], Len(name) + 4 + Len(Varint[arg]),
           [htyp |-> "attrbegin", typ |-> attrtype, subtype |-> sub, name |-> Cut(name, AttrSiz), arg |-> arg,
            arg_from_name |-> IF IsStem(attrtype, sub) THEN GetVarint(Zeroed(name), 1) ELSE 0])

(* fstWriterSetAttrGeneric: a line becomes a part of one.                   *)
Blank(c) == IF c \in {10, 13} THEN Space ELSE c
Blanked(s) == [i \in 1 .. Len(s) |-> Blank(s[i])]
GenericEntry(comm, typ, arg) == AttrEntry(FST_AT_MISC, typ, Blanked(comm), arg)

(* fstWriterCreateVar.                                                      *)
LenOf(vt, len) == IF vt \in Reals THEN 8 ELSE IF vt = FST_VT_GEN_STRING THEN 0 ELSE len
AliasOf(alias) == IF alias > xw.maxhandle THEN 0 ELSE alias
PortLength(vt, len) == IF vt = FST_VT_VCD_PORT THEN Wrap(len - 2) \div 3 ELSE len
LenCountedOnce(v) == Len(v.nam) + 3 + Len(Varint[LenOf(v.vt, v.len)])   (* Mutant: without the alias. *)
LenCounted(v) == Len(v.nam) + 3 + Len(Varint[LenOf(v.vt, v.len)]) + Len(Varint[AliasOf(v.alias)])
VarEntry(v) ==
  LET len == LenOf(v.vt, v.len)
      alias == AliasOf(v.alias)
  IN Entry(<<v.vt, v.vd>> \o Zeroed(v.nam) \o Varint[len] \o Varint[alias], LenCounted(v),
           [htyp |-> "var", typ |-> v.vt, direction |-> v.vd, name |-> Cut(v.nam, NamSiz),
            length |-> PortLength(v.vt, len), handle |-> IF alias = 0 THEN xw.maxhandle + 1 ELSE alias, is_alias |-> alias # 0])

(* The geometry: 0 is a real, the largest number a length of zero.          *)
Geom(vt, len) == IF vt \in Reals THEN 0 ELSE IF LenOf(vt, len) = 0 THEN Modulus - 1 ELSE len
WithVar(w, v) ==
  LET sig == [w EXCEPT !.numsigs = @ + 1] IN
  IF AliasOf(v.alias) = 0
  THEN [sig EXCEPT !.maxhandle = @ + 1, !.geom = @ \o Varint[Geom(v.vt, v.len)]]
  ELSE sig

Writing == xr = <<>> /\ xw.calls < MaxCalls
Longer(len, e) == len + e.len
Call(entries, w) ==
  /\ hier' = hier \o FlattenSeq([i \in 1 .. Len(entries) |-> entries[i].bytes])
  /\ said' = said \o [i \in 1 .. Len(entries) |-> entries[i].record]
  /\ xw' = [w EXCEPT !.hier_file_len = FoldLeft(Longer, @, entries), !.calls = @ + 1]
  /\ UNCHANGED <<xr, returned>>
Declare(entries, w) == Call(entries, w) /\ UNCHANGED stems

CreateVar(v) == Writing /\ Declare(<<VarEntry(v)>>, WithVar(xw, v))
CreateVar2(v, sup) ==
  Writing /\ Declare(<<GenericEntry(sup.type, Misc.SUPVAR, sup.svt * 1024 + (sup.sdt % 1024)), VarEntry(v)>>, WithVar(xw, v))
SetScope(s) == Writing /\ Declare(<<ScopeEntry(s.typ, s.name, s.component)>>, [xw EXCEPT !.numscopes = @ + 1])
SetUpscope == Writing /\ Declare(<<Entry(<<FST_ST_VCD_UPSCOPE>>, 1, [htyp |-> "upscope"])>>, xw)
SetAttrBegin(a) == Writing /\ Declare(<<AttrEntry(a.typ, a.subtype, a.name, a.arg)>>, xw)
SetAttrEnd == Writing /\ Declare(<<Entry(<<FST_ST_GEN_ATTREND>>, 1, [htyp |-> "attrend"])>>, xw)
SetComment(comm, typ) == Writing /\ Declare(<<GenericEntry(comm, typ, 0)>>, xw)

(* fstWriterSetSourceStem_2: a path is named by a number, from one on, and  *)
(* the number's varint is the name of the stem.                             *)
WithPathUncounted(path) ==          (* Mutant: the next path has its number. *)
  [xw EXCEPT !.path_array[path] = xw.path_array_count + 1]
WithPath(path) ==
  [xw EXCEPT !.path_array[path] = xw.path_array_count + 1, !.path_array_count = @ + 1]
SetSourceStem(path, line, typ) ==
  LET known == xw.path_array[path] # 0
      w     == IF known THEN xw ELSE WithPath(path)
      sidx  == w.path_array[path]
      stem  == AttrEntry(FST_AT_MISC, typ, IF sidx = 0 THEN <<>> ELSE Varint[sidx], line)
  IN /\ Writing /\ path # <<>>
     /\ Call(IF known THEN <<stem>> ELSE <<GenericEntry(path, Misc.PATHNAME, sidx), stem>>, w)
     /\ stems' = Append(stems, [at |-> Len(said) + (IF known THEN 1 ELSE 2), path |-> path])

CreateEnumTable(t) ==
  /\ Writing /\ t.literals # <<>>
  /\ Declare(<<AttrEntry(FST_AT_MISC, Misc.ENUMTABLE, EnumTableString(t.name, t.literals, t.vals, 2), xw.max_enumhandle + 1)>>,
             [xw EXCEPT !.max_enumhandle = @ + 1])
EmitEnumTableRef(handle) ==
  Writing /\ Declare(<<AttrEntry(FST_AT_MISC, Misc.ENUMTABLE, <<>>, handle)>>, xw)

----------------------------------------------------------------------------
(* Reading at p.                                                            *)
EndOfString(mem, p) == CHOOSE q \in p .. Len(mem) : mem[q] = 0 /\ \A i \in p .. q - 1 : mem[i] # 0
StringAt(mem, p, siz) == Cut(SubSeq(mem, p, EndOfString(mem, p) - 1), siz)
Behind(mem, p) == EndOfString(mem, p) + 1
VarTypesFewer == 0 .. 28             (* Mutant: without the last type.      *)
VarTypesRead == 0 .. FST_VT_SV_SHORTREAL

(* What stands there: the fields of a record, and where the next one is.    *)
ScopeAt(mem, p) ==
  LET comp == Behind(mem, p + 2) IN
  [htyp |-> "scope", typ |-> mem[p + 1], at |-> p + 2, component |-> comp, next |-> Behind(mem, comp)]
AttrAt(mem, p) ==
  LET arg == Behind(mem, p + 3) IN
  [htyp |-> "attrbegin", typ |-> mem[p + 1], subtype |-> mem[p + 2], at |-> p + 3,
   arg |-> GetVarint(mem, arg), next |-> arg + SkipLen(mem, arg)]
VarAt(mem, p) ==
  LET len == Behind(mem, p + 2)
      alias == len + SkipLen(mem, len)
  IN [htyp |-> "var", typ |-> mem[p], direction |-> mem[p + 1], at |-> p + 2, len |-> GetVarint(mem, len),
      alias |-> GetVarint(mem, alias), next |-> alias + SkipLen(mem, alias)]
At(mem, p) ==
  CASE mem[p] = FST_ST_VCD_SCOPE     -> ScopeAt(mem, p)
    [] mem[p] = FST_ST_VCD_UPSCOPE   -> [htyp |-> "upscope", next |-> p + 1]
    [] mem[p] = FST_ST_GEN_ATTRBEGIN -> AttrAt(mem, p)
    [] mem[p] = FST_ST_GEN_ATTREND   -> [htyp |-> "attrend", next |-> p + 1]
    [] mem[p] \in VarTypesRead       -> VarAt(mem, p)
    [] OTHER                         -> [htyp |-> "unknown", next |-> p + 1]

(* The record fstReaderIterateHier makes of it; h counts the handles.       *)
RecordOf(mem, e, h) ==
  CASE e.htyp = "scope" -> [htyp |-> "scope", typ |-> e.typ, name |-> StringAt(mem, e.at, NamSiz),
                            component |-> StringAt(mem, e.component, NamSiz)]
    [] e.htyp = "attrbegin" -> [htyp |-> "attrbegin", typ |-> e.typ, subtype |-> e.subtype,
                                name |-> StringAt(mem, e.at, AttrSiz), arg |-> e.arg,
                                arg_from_name |-> IF IsStem(e.typ, e.subtype)
                                                  THEN GetVarint(Zeroed(StringAt(mem, e.at, AttrSiz)), 1) ELSE 0]
    [] e.htyp = "var" -> [htyp |-> "var", typ |-> e.typ, direction |-> e.direction, name |-> StringAt(mem, e.at, NamSiz),
                          length |-> PortLength(e.typ, e.len), handle |-> IF e.alias = 0 THEN h + 1 ELSE e.alias,
                          is_alias |-> e.alias # 0]
    [] OTHER -> [htyp |-> e.htyp]
NewHandle(e) == IF e.htyp = "var" /\ e.alias = 0 THEN 1 ELSE 0

(* fstReaderInit's geometry block: lengths, and which of them are reals.    *)
ReadGeom(mem, cnt) ==
  LET acc == FoldLeft(LAMBDA a, i :
                        LET val == GetVarint(mem, a.at) IN
                        [at |-> a.at + SkipLen(mem, a.at),
                         lens |-> Append(a.lens, IF val = 0 THEN 8 ELSE IF val = Modulus - 1 THEN 0 ELSE val),
                         reals |-> IF val = 0 THEN a.reals \cup {i} ELSE a.reals],
                      [at |-> 1, lens |-> <<>>, reals |-> {}], [i \in 1 .. cnt |-> i])
  IN [maxhandle |-> cnt, lens |-> acc.lens, reals |-> acc.reals]

(* fstReaderProcessHier: the same from the hierarchy, and the declarations  *)
(* of a VCD file.  A real alias marks the entry behind the last one.        *)
VcdVarWide(e, mem, id) ==           (* Mutant: ports as long as in the file. *)
  [typ |-> e.typ, name |-> StringAt(mem, e.at, AttrSiz), id |-> VcdID[id], len |-> IF e.typ \in Reals THEN 64 ELSE e.len]
VcdVar(e, mem, id) ==
  [typ |-> e.typ, name |-> StringAt(mem, e.at, AttrSiz), id |-> VcdID[id],
   len |-> IF e.typ = FST_VT_SV_SHORTREAL THEN 32 ELSE IF e.typ \in Reals THEN 64 ELSE PortLength(e.typ, e.len)]
Marked(r, e) == IF e.typ \in Reals THEN r.reals \cup {r.maxhandle + 1} ELSE r.reals
ProcessStep(mem, r, e) ==
  CASE e.htyp = "var" /\ e.alias = 0 ->
         [r EXCEPT !.maxhandle = @ + 1, !.lens = Append(@, e.len), !.vars = Append(@, VcdVar(e, mem, r.maxhandle + 1)),
                   !.reals = IF e.typ \in Reals THEN @ \cup {r.maxhandle + 1} ELSE @ \ {r.maxhandle + 1}]
    [] e.htyp = "var" /\ e.alias # 0 ->
         [r EXCEPT !.num_alias = @ + 1, !.reals = Marked(r, e), !.vars = Append(@, VcdVar(e, mem, e.alias))]
    [] e.htyp = "scope" -> [r EXCEPT !.scopes = Append(@, StringAt(mem, e.at, AttrSiz))]
    [] e.htyp = "upscope" -> [r EXCEPT !.upscopes = @ + 1]
    [] OTHER -> r
EntriesOf(mem) ==
  LET from[p \in Nat] == IF p > Len(mem) THEN <<>> ELSE <<At(mem, p)>> \o from[At(mem, p).next]
  IN from[1]
ProcessAll(mem) ==
  FoldLeft(LAMBDA r, e : ProcessStep(mem, r, e),
           [maxhandle |-> 0, num_alias |-> 0, lens |-> <<>>, reals |-> {}, vars |-> <<>>, scopes |-> <<>>, upscopes |-> 0],
           EntriesOf(mem))

(* fstReaderOpen: refuses a file without a variable.                        *)
OpenReader ==
  /\ xr = <<>> /\ xw.maxhandle > 0
  /\ xr' = [pos |-> 1, current_handle |-> 0, do_rewind |-> TRUE, ended |-> FALSE, disturbed |-> FALSE,
            geom |-> ReadGeom(xw.geom, xw.maxhandle), processed |-> <<>>]
  /\ UNCHANGED <<hier, xw, said, stems, returned>>

IterateHierRewind ==
  /\ xr # <<>> /\ xr' = [xr EXCEPT !.do_rewind = TRUE]
  /\ UNCHANGED <<hier, xw, said, stems, returned>>

(* fstReaderIterateHier, until it returns NULL or after a rewind.           *)
RewoundForgetful(r) ==              (* Mutant: handles are counted on.      *)
  IF r.do_rewind THEN [r EXCEPT !.do_rewind = FALSE, !.pos = 1, !.ended = FALSE, !.disturbed = FALSE] ELSE r
Rewound(r) ==
  IF r.do_rewind
  THEN [r EXCEPT !.do_rewind = FALSE, !.pos = 1, !.ended = FALSE, !.disturbed = FALSE, !.current_handle = 0] ELSE r
IterateHier ==
  /\ xr # <<>> /\ (xr.ended => xr.do_rewind)
  /\ LET r == Rewound(xr)
         before == IF xr.do_rewind THEN <<>> ELSE returned
         e == IF r.pos > Len(hier) THEN [htyp |-> "unknown", next |-> r.pos] ELSE At(hier, r.pos)
     IN IF e.htyp = "unknown"
        THEN xr' = [r EXCEPT !.pos = e.next, !.ended = TRUE] /\ returned' = before
        ELSE /\ xr' = [r EXCEPT !.pos = e.next, !.current_handle = @ + NewHandle(e)]
             /\ returned' = Append(before, RecordOf(hier, e, r.current_handle))
  /\ UNCHANGED <<hier, xw, said, stems>>

(* fstReaderProcessHier leaves the handle they share at the end.            *)
ProcessHier ==
  /\ xr # <<>>
  /\ xr' = [xr EXCEPT !.processed = ProcessAll(hier), !.pos = Len(hier) + 1, !.disturbed = TRUE]
  /\ UNCHANGED <<hier, xw, said, stems, returned>>

HierNext ==
  \/ \E v \in Vars : CreateVar(v) \/ \E sup \in Supplements : CreateVar2(v, sup)
  \/ \E s \in Scopes : SetScope(s)
  \/ SetUpscope
  \/ \E a \in Attrs : SetAttrBegin(a)
  \/ SetAttrEnd
  \/ \E c \in Comments : SetComment(c.comm, c.typ)
  \/ \E s \in Stems : SetSourceStem(s.path, s.line, s.typ)
  \/ \E t \in EnumTables : CreateEnumTable(t)
  \/ \E handle \in 1 .. xw.max_enumhandle : EmitEnumTableRef(handle)
  \/ OpenReader \/ IterateHierRewind \/ IterateHier \/ ProcessHier
HierSpec == HierInit /\ [][HierNext]_hierVars

----------------------------------------------------------------------------
(* The length the writer counts, call by call and formula by formula, is    *)
(* what it wrote: fstWriterClose compresses that many bytes of the file and *)
(* writes it as their number (fstapi.c:2651-2918, 2078-2122).               *)
LengthCounted == xw.hier_file_len = Len(hier)

(* fstReaderIterateHier returns what was declared, in that order, with the  *)
(* handles fstWriterCreateVar returned, in every iteration: whether or not  *)
(* the last one was finished, and with fstReaderProcessHier in between      *)
(* (fstapi.c:4112-4289).                                                    *)
IterationFaithful == IsPrefix(returned, said)

(* ... and all of it, unless fstReaderProcessHier moved the handle away.    *)
IterationComplete ==
  xr # <<>> => (xr.ended /\ ~xr.disturbed => returned = said)

(* The two ways of learning about the variables agree: the geometry block   *)
(* and the hierarchy have the same handles, lengths and reals, whatever     *)
(* aliases a real has, and the header's counts (fstapi.c:2679-2720,         *)
(* 4806-4842, 4466-4562).                                                   *)
GeometryAgrees ==
  xr # <<>> /\ xr.processed # <<>> =>
    LET p == xr.processed IN
    /\ p.maxhandle = xr.geom.maxhandle /\ p.lens = xr.geom.lens
    /\ p.reals \cap 1 .. p.maxhandle = xr.geom.reals
    /\ p.maxhandle + p.num_alias = xw.numsigs /\ Len(p.scopes) = xw.numscopes

(* A VCD file declares the same variables under the identifiers of the      *)
(* handles that the iteration returns, with lengths that agree but for      *)
(* reals (fstapi.c:4535-4558).                                              *)
IsVar(record) == record.htyp = "var"
VarsAgree ==
  xr # <<>> /\ xr.processed # <<>> =>
    LET vars == SelectSeq(said, IsVar) IN
    /\ Len(xr.processed.vars) = Len(vars)
    /\ \A i \in 1 .. Len(vars) :
         LET v == xr.processed.vars[i] IN
         /\ v.id = VcdID[vars[i].handle] /\ v.typ = vars[i].typ /\ Cut(v.name, NamSiz) = vars[i].name
         /\ vars[i].typ \notin Reals => v.len = vars[i].length

(* All three descriptions of the variables are of the same ones.            *)
DeclarationsAgree == GeometryAgrees /\ VarsAgree

(* Every stem the iteration returns has a number under which exactly one    *)
(* path was returned before it, and it is the path the stem was set with    *)
(* (fstapi.c:2377-2441).                                                    *)
StemsResolve ==
  \A i \in 1 .. Len(stems) :
    stems[i].at <= Len(returned) =>
      LET paths == {j \in 1 .. Len(returned) : returned[j].htyp = "attrbegin" /\ returned[j].typ = FST_AT_MISC
                                               /\ returned[j].subtype = Misc.PATHNAME
                                               /\ returned[j].arg = returned[stems[i].at].arg_from_name}
      IN \E j \in paths : /\ paths = {j} /\ j < stems[i].at
                          /\ returned[j].name = Cut(Blanked(stems[i].path), AttrSiz)
=============================================================================
