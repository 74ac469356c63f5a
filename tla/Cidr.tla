-------------------------------- MODULE Cidr --------------------------------
(***************************************************************************)
(* The networks of the deny list (denylist.rs) and of the admin interface  *)
(* (main.rs): how lines of text become (network, mask) pairs, and when an  *)
(* address is in one.  Addresses have Width bits, 32 in the code.  A u32   *)
(* is the set of the positions of its 1 bits: & is the intersection, !0    *)
(* the set of all positions, and a shift moves every position up and drops *)
(* those that leave the width.                                             *)
(***************************************************************************)
EXTENDS Integers, Sequences

CONSTANTS Width, Invalid

ASSUME WidthAssumption == Width \in Nat \ {0}

Bits == 0..Width - 1
Numbers == SUBSET Bits

(* An address as IpAddr holds it: IPv4, IPv4 mapped into IPv6 (::ffff:n),  *)
(* IPv4-compatible IPv6 (::n), or any other IPv6 address.                  *)
Addresses == [form : {"v4", "mapped", "compatible", "v6"}, n : Numbers]

(* A line of the list: a network in IPv4 or in mapped form, with the       *)
(* length of its prefix (of the IPv4 part), or anything else: a comment,   *)
(* a blank line, what cannot be read.                                      *)
Lines == [form : {"v4", "mapped"}, ip : Numbers, len : 0..Width + 1] \cup {Invalid}

VARIABLES
    text,  \* the lines read so far
    nets   \* the pairs they have given

Shl(n, s) == {k + s : k \in n} \cap Bits

\* Mutant of Mask: a prefix of length zero shifts by the whole width, which
\* the hardware takes for no shift at all.
MaskOfZero(len) == Shl(Bits, (Width - len) % Width)

(* The mask of a prefix; the length zero has a branch of its own. *)
Mask(len) == IF len = 0 THEN {} ELSE Shl(Bits, Width - len)

(* parse_cidr, the same in both files: None for what is not an IPv4        *)
(* address and a length up to Width.                                       *)
ParseCidr(line) ==
    IF line = Invalid \/ line.form # "v4" \/ line.len > Width THEN << >>
    ELSE << [net |-> line.ip \cap Mask(line.len), mask |-> Mask(line.len)] >>

CidrInit == text = << >> /\ nets = << >>

(* One turn of the loop over the lines: what does not parse is left out. *)
ReadLine(line) ==
    /\ text' = Append(text, line)
    /\ nets' = nets \o ParseCidr(line)

CidrSpec == CidrInit /\ [][\E line \in Lines : ReadLine(line)]_<<text, nets>>

InSome(n) == \E i \in DOMAIN nets : n \cap nets[i].mask = nets[i].net

(* IpDenyList::is_denied: IPv4 in all three forms (to_ipv4), no other. *)
IsDenied(ip) == ip.form # "v6" /\ InSome(ip.n)

(* ip_in_cidr of the admin interface: an empty list allows everyone, any   *)
(* other list no IPv6 address in whatever form.                            *)
IpInCidr(ip) == nets = << >> \/ (ip.form = "v4" /\ InSome(ip.n))

-----------------------------------------------------------------------------
(* The reference: an address is in a network when their first `len` bits   *)
(* are the same.                                                           *)

SamePrefix(n, line) == \A k \in Width - line.len..Width - 1 : k \in n <=> k \in line.ip

\* A line that parse_cidr takes.
Valid(line) == line # Invalid /\ line.form = "v4" /\ line.len <= Width

\* A network in mapped form: what such a line should do is in dispute.
Disputed(line) == line # Invalid /\ line.form = "mapped"

\* The deny list (is_denied) holds exactly the addresses that share their
\* prefix with a line that parses, whatever host bits the line has and whatever
\* other lines there are, and the admin list (ip_in_cidr) admits exactly those,
\* or everyone when no line parses.  Nothing is claimed of a list with a
\* network in mapped form: parse_cidr drops it, and the head of denylist.rs
\* says that such networks are handled.
CidrMatches ==
    (\A i \in DOMAIN text : ~Disputed(text[i])) =>
      \A ip \in Addresses :
        LET in == \E i \in DOMAIN text : Valid(text[i]) /\ SamePrefix(ip.n, text[i])
        IN  /\ IsDenied(ip) <=> ip.form # "v6" /\ in
            /\ IpInCidr(ip) <=> \/ \A i \in DOMAIN text : ~Valid(text[i])
                                \/ ip.form = "v4" /\ in

=============================================================================
