SPECIFICATION PSpec
CONSTANTS
    v1 = v1
    v2 = v2
    a1 = a1
    a2 = a2
    self = self
    Configured = {hostname}
    Derived = {iplist}
    UserEntered = {keystorepw, ldappw, firstcn}
    Compared = {iplist}
    Passwords = {keystorepw, ldappw}
    FirstCN = firstcn
    Value = {v1, v2}
    Empty = Empty
    Answers <- MCAnswers
    Default <- MCDefault
    XmlVersion <- MCXmlVersion
    KeystorePassword = keystorepw
    LdapPassword = ldappw
    IpList = iplist
    CertificateQuestions = {}
    Keyed = {}
    Tokens = {hostname}
    HostName = hostname
    Synchronized = synchronized
    No = v2
    Localhost = Localhost
    Yes = v1
    Address = {self, a1, a2}
    Hosts <- MCHosts
    Self = self
    Placeholder = Placeholder
    NoFile = NoFile
    Silent = {keystorepw}
    Varied = {hostname}
    Faults = {"apacheStart"}
PROPERTY PropertiesCurrent
